---- MODULE Spec2Model ----
(***************************************************************************)
(* SBOM Sentinel: the REST handlers over the SQLite repository, the        *)
(* CycloneDX ingestor, the analysis agents and the in-memory vector index.  *)
(* Go strings that the code inspects (licenses, LLM replies, finding text)  *)
(* are sequences of one-character strings, so that strings.Contains,        *)
(* strings.ToLower, strings.TrimSpace and fmt.Sprintf are computed.         *)
(***************************************************************************)
EXTENDS Integers, Sequences, FiniteSets, TLC

VARIABLES
    licSbom,     \* the core.SBOM handed to LicenseAgent.Analyze
    licRuns,     \* the results of the Analyze calls made on licSbom so far
    documents,   \* MemoryVectorDB.documents: map from document ID to Document
    vecRet,      \* the last MemoryVectorDB call: method, argument, return values
    sboms,       \* the rows of the SQLite table sboms
    pc,          \* per client: where its request's handler goroutine stands
    local,       \* per client: the local variables of that handler
    lastResp,    \* the request served last and the response written to it
    lastPut,     \* per id: the core.SBOM of the last write statement that succeeded
                 \* on it, which is also the last one answered with 201
    analysis,    \* the goroutine of one analyze request, from "Run analysis agents" on
    search,      \* a MemoryVectorDB.Search call in progress in a second goroutine
    parsed       \* the last CycloneDXParser.Parse call: document, SBOM and error

vars == <<licSbom, licRuns, documents, vecRet, sboms, pc, local, lastResp, lastPut,
          analysis, search, parsed>>
licVars == <<licSbom, licRuns>>
vecVars == <<documents, vecRet, search>>
srvVars == <<sboms, pc, local, lastResp, lastPut>>
anaVars == <<analysis>>
ingVars == <<parsed>>

----------------------------------------------------------------------------
(* Bounds *)

MaxComponents == 2
MaxProperties == 1   \* longest list of top-level properties of a document
MaxRuns == 2
MaxDim == 2       \* longest vector handed to the vector index
NumClients == 2   \* concurrent HTTP clients

----------------------------------------------------------------------------
(* Go maps: a function whose domain is the set of keys present *)

MapPut(m, k, v) == [x \in (DOMAIN m) \cup {k} |-> IF x = k THEN v ELSE m[x]]
MapDelete(m, k) == [x \in (DOMAIN m) \ {k} |-> m[x]]

----------------------------------------------------------------------------
(* package strings *)

RECURSIVE SeqsUpTo(_, _)
SeqsUpTo(S, n) ==
    IF n = 0 THEN { << >> }
    ELSE LET shorter == SeqsUpTo(S, n - 1)
         IN  shorter \cup { Append(s, x) : s \in { t \in shorter : Len(t) = n - 1 }, x \in S }

Contains(s, substr) ==
    \E i \in 1..(Len(s) - Len(substr) + 1) :
        SubSeq(s, i, i + Len(substr) - 1) = substr

UpperLetters == <<"A","B","C","D","E","F","G","H","I","J","K","L","M",
                  "N","O","P","Q","R","S","T","U","V","W","X","Y","Z">>
LowerLetters == <<"a","b","c","d","e","f","g","h","i","j","k","l","m",
                  "n","o","p","q","r","s","t","u","v","w","x","y","z">>

ToLowerChar(c) ==
    IF \E i \in 1..26 : UpperLetters[i] = c
    THEN LowerLetters[CHOOSE i \in 1..26 : UpperLetters[i] = c]
    ELSE c

ToLower(s) == [i \in 1..Len(s) |-> ToLowerChar(s[i])]

IsSpace(c) == c \in {" ", "\t", "\n", "\r"}

RECURSIVE TrimLeft(_)
TrimLeft(s) ==
    IF s # << >> /\ IsSpace(Head(s)) THEN TrimLeft(Tail(s)) ELSE s

RECURSIVE TrimRight(_)
TrimRight(s) ==
    IF s # << >> /\ IsSpace(s[Len(s)]) THEN TrimRight(SubSeq(s, 1, Len(s) - 1)) ELSE s

TrimSpace(s) == TrimRight(TrimLeft(s))

----------------------------------------------------------------------------
(* internal/analysis: LicenseAgent *)

highRiskLicenses ==
    { [id |-> <<"A","G","P","L","-","3",".","0","-","o","n","l","y">>,
       description |-> <<"G","N","U"," ","A","f","f","e","r","o"," ","G","e","n","e","r","a","l"," ","P","u","b","l","i","c"," ","L","i","c","e","n","s","e"," ","v","3",".","0"," ","o","n","l","y">>],
      [id |-> <<"A","G","P","L","-","3",".","0","-","o","r","-","l","a","t","e","r">>,
       description |-> <<"G","N","U"," ","A","f","f","e","r","o"," ","G","e","n","e","r","a","l"," ","P","u","b","l","i","c"," ","L","i","c","e","n","s","e"," ","v","3",".","0"," ","o","r"," ","l","a","t","e","r">>],
      [id |-> <<"G","P","L","-","2",".","0","-","o","n","l","y">>,
       description |-> <<"G","N","U"," ","G","e","n","e","r","a","l"," ","P","u","b","l","i","c"," ","L","i","c","e","n","s","e"," ","v","2",".","0"," ","o","n","l","y">>],
      [id |-> <<"G","P","L","-","2",".","0","-","o","r","-","l","a","t","e","r">>,
       description |-> <<"G","N","U"," ","G","e","n","e","r","a","l"," ","P","u","b","l","i","c"," ","L","i","c","e","n","s","e"," ","v","2",".","0"," ","o","r"," ","l","a","t","e","r">>],
      [id |-> <<"G","P","L","-","3",".","0","-","o","n","l","y">>,
       description |-> <<"G","N","U"," ","G","e","n","e","r","a","l"," ","P","u","b","l","i","c"," ","L","i","c","e","n","s","e"," ","v","3",".","0"," ","o","n","l","y">>],
      [id |-> <<"G","P","L","-","3",".","0","-","o","r","-","l","a","t","e","r">>,
       description |-> <<"G","N","U"," ","G","e","n","e","r","a","l"," ","P","u","b","l","i","c"," ","L","i","c","e","n","s","e"," ","v","3",".","0"," ","o","r"," ","l","a","t","e","r">>],
      [id |-> <<"L","G","P","L","-","2",".","1","-","o","n","l","y">>,
       description |-> <<"G","N","U"," ","L","e","s","s","e","r"," ","G","e","n","e","r","a","l"," ","P","u","b","l","i","c"," ","L","i","c","e","n","s","e"," ","v","2",".","1"," ","o","n","l","y">>],
      [id |-> <<"L","G","P","L","-","2",".","1","-","o","r","-","l","a","t","e","r">>,
       description |-> <<"G","N","U"," ","L","e","s","s","e","r"," ","G","e","n","e","r","a","l"," ","P","u","b","l","i","c"," ","L","i","c","e","n","s","e"," ","v","2",".","1"," ","o","r"," ","l","a","t","e","r">>],
      [id |-> <<"L","G","P","L","-","3",".","0","-","o","n","l","y">>,
       description |-> <<"G","N","U"," ","L","e","s","s","e","r"," ","G","e","n","e","r","a","l"," ","P","u","b","l","i","c"," ","L","i","c","e","n","s","e"," ","v","3",".","0"," ","o","n","l","y">>],
      [id |-> <<"L","G","P","L","-","3",".","0","-","o","r","-","l","a","t","e","r">>,
       description |-> <<"G","N","U"," ","L","e","s","s","e","r"," ","G","e","n","e","r","a","l"," ","P","u","b","l","i","c"," ","L","i","c","e","n","s","e"," ","v","3",".","0"," ","o","r"," ","l","a","t","e","r">>],
      [id |-> <<"E","U","P","L","-","1",".","1">>,
       description |-> <<"E","u","r","o","p","e","a","n"," ","U","n","i","o","n"," ","P","u","b","l","i","c"," ","L","i","c","e","n","s","e"," ","1",".","1">>],
      [id |-> <<"E","U","P","L","-","1",".","2">>,
       description |-> <<"E","u","r","o","p","e","a","n"," ","U","n","i","o","n"," ","P","u","b","l","i","c"," ","L","i","c","e","n","s","e"," ","1",".","2">>],
      [id |-> <<"C","D","D","L","-","1",".","0">>,
       description |-> <<"C","o","m","m","o","n"," ","D","e","v","e","l","o","p","m","e","n","t"," ","a","n","d"," ","D","i","s","t","r","i","b","u","t","i","o","n"," ","L","i","c","e","n","s","e"," ","1",".","0">>],
      [id |-> <<"C","D","D","L","-","1",".","1">>,
       description |-> <<"C","o","m","m","o","n"," ","D","e","v","e","l","o","p","m","e","n","t"," ","a","n","d"," ","D","i","s","t","r","i","b","u","t","i","o","n"," ","L","i","c","e","n","s","e"," ","1",".","1">>],
      [id |-> <<"E","P","L","-","1",".","0">>,
       description |-> <<"E","c","l","i","p","s","e"," ","P","u","b","l","i","c"," ","L","i","c","e","n","s","e"," ","1",".","0">>],
      [id |-> <<"E","P","L","-","2",".","0">>,
       description |-> <<"E","c","l","i","p","s","e"," ","P","u","b","l","i","c"," ","L","i","c","e","n","s","e"," ","2",".","0">>],
      [id |-> <<"M","P","L","-","1",".","1">>,
       description |-> <<"M","o","z","i","l","l","a"," ","P","u","b","l","i","c"," ","L","i","c","e","n","s","e"," ","1",".","1">>],
      [id |-> <<"M","P","L","-","2",".","0">>,
       description |-> <<"M","o","z","i","l","l","a"," ","P","u","b","l","i","c"," ","L","i","c","e","n","s","e"," ","2",".","0">>],
      [id |-> <<"O","S","L","-","3",".","0">>,
       description |-> <<"O","p","e","n"," ","S","o","f","t","w","a","r","e"," ","L","i","c","e","n","s","e"," ","3",".","0">>],
      [id |-> <<"Q","P","L","-","1",".","0">>,
       description |-> <<"Q"," ","P","u","b","l","i","c"," ","L","i","c","e","n","s","e"," ","1",".","0">>],
      [id |-> <<"S","l","e","e","p","y","c","a","t">>,
       description |-> <<"S","l","e","e","p","y","c","a","t"," ","L","i","c","e","n","s","e">>] }

LicenseAgentName == "License Agent"

extractVersionNumber(license) ==
    IF Contains(license, <<"3",".","0">>) THEN <<"3",".","0">>
    ELSE IF Contains(license, <<"2",".","1">>) THEN <<"2",".","1">>
    ELSE IF Contains(license, <<"2",".","0">>) THEN <<"2",".","0">>
    ELSE IF Contains(license, <<"1",".","1">>) THEN <<"1",".","1">>
    ELSE IF Contains(license, <<"1",".","0">>) THEN <<"1",".","0">>
    ELSE << >>

(* One iteration of the range loop of isHighRiskLicense: TRUE iff the body
   returns for the watchlist entry riskLicense. *)
FamilyMatch(lowerLicense, riskLicense, family) ==
    /\ Contains(lowerLicense, family)
    /\ Contains(ToLower(riskLicense), family)
    /\ extractVersionNumber(lowerLicense) = extractVersionNumber(ToLower(riskLicense))

LoopBodyReturns(lowerLicense, riskLicense) ==
    \/ ToLower(riskLicense) = lowerLicense
    \/ FamilyMatch(lowerLicense, riskLicense, <<"g","p","l">>)
    \/ FamilyMatch(lowerLicense, riskLicense, <<"a","g","p","l">>)
    \/ FamilyMatch(lowerLicense, riskLicense, <<"l","g","p","l">>)

(* The set of (description, isHighRisk) pairs isHighRiskLicense can return.
   The loop ranges over a Go map, whose iteration order is unspecified: the
   entry that returns is the first one, in that order, whose body returns, so
   any entry whose body returns can be the one. *)
isHighRiskLicense(license) ==
    LET normalizedLicense == TrimSpace(license)
        lowerLicense == ToLower(normalizedLicense)
        exact == { e \in highRiskLicenses : e.id = normalizedLicense }
        returning == { e \in highRiskLicenses : LoopBodyReturns(lowerLicense, e.id) }
    IN  IF exact # {}
        THEN { [description |-> e.description, isHighRisk |-> TRUE] : e \in exact }
        ELSE IF returning # {}
        THEN { [description |-> e.description, isHighRisk |-> TRUE] : e \in returning }
        ELSE { [description |-> << >>, isHighRisk |-> FALSE] }

(* A severity that looks for "gpl" before it looks for "agpl" *)
determineSeverityGPLFirst(license) ==
    LET lowerLicense == ToLower(license)
    IN  IF Contains(lowerLicense, <<"g","p","l">>)
           /\ ~Contains(lowerLicense, <<"l","g","p","l">>) THEN "High"
        ELSE IF Contains(lowerLicense, <<"a","g","p","l">>) THEN "Critical"
        ELSE IF \/ Contains(lowerLicense, <<"l","g","p","l">>)
                \/ Contains(lowerLicense, <<"m","p","l">>)
                \/ Contains(lowerLicense, <<"e","p","l">>)
                \/ Contains(lowerLicense, <<"e","u","p","l">>)
                \/ Contains(lowerLicense, <<"c","d","d","l">>) THEN "Medium"
        ELSE "High"

determineSeverity(license) ==
    LET lowerLicense == ToLower(license)
    IN  IF Contains(lowerLicense, <<"a","g","p","l">>) THEN "Critical"
        ELSE IF Contains(lowerLicense, <<"g","p","l">>)
                /\ ~Contains(lowerLicense, <<"l","g","p","l">>) THEN "High"
        ELSE IF \/ Contains(lowerLicense, <<"l","g","p","l">>)
                \/ Contains(lowerLicense, <<"m","p","l">>)
                \/ Contains(lowerLicense, <<"e","p","l">>)
                \/ Contains(lowerLicense, <<"e","u","p","l">>)
                \/ Contains(lowerLicense, <<"c","d","d","l">>) THEN "Medium"
        ELSE "High"

(* fmt.Sprintf of the finding message of LicenseAgent.Analyze *)
LicenseFinding(component, licenseDescription) ==
    <<"C","o","m","p","o","n","e","n","t"," ","'">>
    \o component.Name
    \o <<"'"," ","(","v">>
    \o component.Version
    \o <<")"," ","u","s","e","s"," ","h","i","g","h","-","r","i","s","k"," ","c","o","p","y","l","e","f","t"," ","l","i","c","e","n","s","e"," ","'">>
    \o component.License
    \o <<"'"," ","(">>
    \o licenseDescription
    \o <<")","."," ","T","h","i","s"," ","m","a","y"," ","r","e","q","u","i","r","e"," ","s","o","u","r","c","e"," ","c","o","d","e"," ","d","i","s","c","l","o","s","u","r","e"," ","o","r"," ","i","m","p","o","s","e"," ","o","t","h","e","r"," ","c","o","m","p","l","i","a","n","c","e"," ","o","b","l","i","g","a","t","i","o","n","s",".">>

(* The set of result slices LicenseAgent.Analyze can return for the
   components from index i on, appended to results. *)
RECURSIVE LicenseAnalyzeFrom(_, _, _)
LicenseAnalyzeFrom(components, i, results) ==
    IF i > Len(components) THEN { results }
    ELSE LET component == components[i]
         IN  IF component.License = << >>
             THEN LicenseAnalyzeFrom(components, i + 1, results)
             ELSE UNION { IF r.isHighRisk
                          THEN LicenseAnalyzeFrom(components, i + 1,
                                   Append(results,
                                          [agent_name |-> LicenseAgentName,
                                           finding |-> LicenseFinding(component, r.description),
                                           severity |-> determineSeverity(component.License)]))
                          ELSE LicenseAnalyzeFrom(components, i + 1, results)
                        : r \in isHighRiskLicense(component.License) }

LicenseAgentAnalyze(sbom) == LicenseAnalyzeFrom(sbom.Components, 1, << >>)

LicenseIdle ==
    /\ licSbom = [ID |-> "", Name |-> "", Components |-> << >>, Metadata |-> << >>]
    /\ licRuns = << >>

----------------------------------------------------------------------------
(* internal/core and internal/ingestion: CycloneDXParser.Parse.  A document
   is the cycloneDXDocument the JSON decoder fills in (absent fields are zero
   values, a nil pointer has present = FALSE), or a body that does not
   decode. *)

NoSBOM == [ID |-> "", Name |-> "", Components |-> << >>, Metadata |-> << >>]

LicenseID(id) == << [license |-> [present |-> TRUE, id |-> id, name |-> << >>]] >>
LicenseNamed(name) == << [license |-> [present |-> TRUE, id |-> << >>, name |-> name]] >>

NoMetadata ==
    [present |-> FALSE, timestamp |-> "", component |-> [present |-> FALSE, name |-> ""]]

Undecodable ==
    [decodes |-> FALSE, bomFormat |-> "", specVersion |-> "", serialNumber |-> "",
     metadata |-> NoMetadata, components |-> << >>, properties |-> << >>]

CycloneDXDocs ==
    { [decodes |-> TRUE, bomFormat |-> "CycloneDX", specVersion |-> "1.4",
       serialNumber |-> "urn:uuid:1",
       metadata |-> [present |-> TRUE, timestamp |-> "2024-01-01T00:00:00Z",
                     component |-> [present |-> TRUE, name |-> "Test Application"]],
       components |-> << [name |-> <<"a">>, version |-> <<"1">>, purl |-> <<"p">>,
                          licenses |-> LicenseID(<<"G","P","L","-","3",".","0">>)],
                         [name |-> <<"b">>, version |-> <<"2">>, purl |-> << >>,
                          licenses |-> LicenseID(<<"M","I","T">>)] >>,
       properties |-> << >>],
      [decodes |-> TRUE, bomFormat |-> "CycloneDX", specVersion |-> "1.5",
       serialNumber |-> "urn:uuid:1",
       metadata |-> NoMetadata,
       components |-> << [name |-> << >>, version |-> <<"1">>, purl |-> << >>,
                          licenses |-> LicenseNamed(<<"A","G","P","L","-","3",".","0","-","o","n","l","y">>)] >>,
       properties |-> << [name |-> "bomFormat", value |-> "SPDX"] >>],
      [decodes |-> TRUE, bomFormat |-> "CycloneDX", specVersion |-> "1.4",
       serialNumber |-> "",
       metadata |-> [present |-> TRUE, timestamp |-> "",
                     component |-> [present |-> FALSE, name |-> ""]],
       components |-> << >>,
       properties |-> << >>],
      [decodes |-> TRUE, bomFormat |-> "CycloneDX", specVersion |-> "1.4",
       serialNumber |-> "",
       metadata |-> NoMetadata,
       components |-> << [name |-> <<"c">>, version |-> << >>, purl |-> << >>,
                          licenses |-> << >>] >>,
       properties |-> << [name |-> "team", value |-> "x"] >>],
      [decodes |-> TRUE, bomFormat |-> "CycloneDX", specVersion |-> "",
       serialNumber |-> "urn:uuid:2",
       metadata |-> NoMetadata,
       components |-> << [name |-> <<"d">>, version |-> <<"3">>, purl |-> << >>,
                          licenses |-> << [license |-> [present |-> FALSE, id |-> << >>, name |-> << >>]] >>] >>,
       properties |-> << >>],
      [decodes |-> TRUE, bomFormat |-> "CycloneDX", specVersion |-> "1.4",
       serialNumber |-> "urn:uuid:3",
       metadata |-> NoMetadata,
       components |-> << [name |-> <<"e">>, version |-> <<"1">>, purl |-> << >>,
                          licenses |-> LicenseID(<<"L","G","P","L","-","2",".","1","-","o","n","l","y">>)],
                         [name |-> << >>, version |-> <<"2">>, purl |-> << >>,
                          licenses |-> LicenseID(<<"A","G","P","L","-","3",".","0","-","o","n","l","y">>)],
                         [name |-> <<"g">>, version |-> <<"3">>, purl |-> << >>,
                          licenses |-> LicenseID(<<"M","I","T">>)] >>,
       properties |-> << >>],
      [decodes |-> TRUE, bomFormat |-> "SPDX", specVersion |-> "2.3",
       serialNumber |-> "urn:uuid:2",
       metadata |-> NoMetadata, components |-> << >>, properties |-> << >>],
      Undecodable }

(* The license of one component: licenses[0].license.id, else its name. *)
ComponentLicense(comp) ==
    IF Len(comp.licenses) > 0 /\ comp.licenses[1].license.present
    THEN LET license == comp.licenses[1].license
         IN  IF license.id # << >> THEN license.id
             ELSE IF license.name # << >> THEN license.name
             ELSE << >>
    ELSE << >>

(* A conversion that puts a placeholder where the source has no version *)
ConvertComponentDefaultingVersion(comp) ==
    [Name |-> comp.name,
     Version |-> IF comp.version = << >> THEN <<"0">> ELSE comp.version,
     PURL |-> comp.purl,
     License |-> ComponentLicense(comp)]

ConvertComponent(comp) ==
    [Name |-> comp.name, Version |-> comp.version, PURL |-> comp.purl,
     License |-> ComponentLicense(comp)]

(* for _, prop := range doc.Properties { sbom.Metadata[prop.Name] = prop.Value } *)
RECURSIVE AddProperties(_, _, _)
AddProperties(metadata, properties, i) ==
    IF i > Len(properties) THEN metadata
    ELSE AddProperties(MapPut(metadata, properties[i].name, properties[i].value),
                       properties, i + 1)

ParseID(doc) == doc.serialNumber

Parse(doc) ==
    IF ~doc.decodes
    THEN [err |-> "failed to decode CycloneDX JSON", sbom |-> NoSBOM]
    ELSE IF doc.bomFormat # "CycloneDX"
    THEN [err |-> "invalid BOM format", sbom |-> NoSBOM]
    ELSE LET fromMetadata ==
                 IF doc.metadata.present /\ doc.metadata.component.present
                 THEN doc.metadata.component.name ELSE ""
             name == IF fromMetadata = "" THEN "Unnamed SBOM" ELSE fromMetadata
             md0 == MapPut(MapPut(<< >>, "bomFormat", doc.bomFormat),
                           "specVersion", doc.specVersion)
             md1 == IF doc.metadata.present /\ doc.metadata.timestamp # ""
                    THEN MapPut(md0, "timestamp", doc.metadata.timestamp)
                    ELSE md0
         IN  [err |-> "nil",
              sbom |-> [ID |-> ParseID(doc),
                        Name |-> name,
                        Components |-> [i \in 1..Len(doc.components) |->
                                            ConvertComponent(doc.components[i])],
                        Metadata |-> AddProperties(md1, doc.properties, 1)]]

(* No call of Parse yet *)
NoParse == [called |-> FALSE, doc |-> Undecodable, sbom |-> NoSBOM, err |-> "nil"]

ParseComponents ==
    { [name |-> <<"a">>, version |-> <<"1">>, purl |-> <<"p">>,
       licenses |-> LicenseID(<<"M","I","T">>)],
      [name |-> << >>, version |-> <<"2">>, purl |-> << >>, licenses |-> << >>],
      [name |-> <<" ","B"," ">>, version |-> << >>, purl |-> << >>,
       licenses |-> LicenseNamed(<<"G","P","L","-","3",".","0">>)] }

ParseProperties ==
    { [name |-> "bomFormat", value |-> "SPDX"],
      [name |-> "specVersion", value |-> "9.9"],
      [name |-> "timestamp", value |-> "never"],
      [name |-> "team", value |-> "core"] }

(* The documents handed to Parse *)
ParseDocs ==
    CycloneDXDocs
    \cup { [decodes |-> TRUE, bomFormat |-> f, specVersion |-> v, serialNumber |-> "urn:uuid:1",
            metadata |-> m, components |-> c, properties |-> p] :
           f \in { "CycloneDX", "cyclonedx" }, v \in { "1.4", "" },
           m \in { NoMetadata,
                   [present |-> TRUE, timestamp |-> "2024-01-01T00:00:00Z",
                    component |-> [present |-> FALSE, name |-> ""]] },
           c \in SeqsUpTo(ParseComponents, MaxComponents),
           p \in SeqsUpTo(ParseProperties, MaxProperties) }

ParseCall ==
    /\ ~parsed.called
    /\ \E doc \in ParseDocs :
          parsed' = [called |-> TRUE, doc |-> doc, sbom |-> Parse(doc).sbom,
                     err |-> Parse(doc).err]
    /\ UNCHANGED <<licVars, vecVars, srvVars, anaVars>>

----------------------------------------------------------------------------
(* encoding/json as SQLiteRepository uses it.  The JSON text of the
   components column is a sequence of objects, an object a sequence of
   <<key, value>> members in struct field order; the JSON text of the
   metadata column is the set of the map's <<key, value>> members. *)

MarshalComponents(components) ==
    [i \in 1..Len(components) |->
        << <<"name", components[i].Name>>, <<"version", components[i].Version>>,
           <<"purl", components[i].PURL>>, <<"license", components[i].License>> >>]

Member(object, key) ==
    IF \E i \in 1..Len(object) : object[i][1] = key
    THEN object[CHOOSE i \in 1..Len(object) : object[i][1] = key][2]
    ELSE << >>

UnmarshalComponents(text) ==
    [i \in 1..Len(text) |->
        [Name |-> Member(text[i], "name"), Version |-> Member(text[i], "version"),
         PURL |-> Member(text[i], "purl"), License |-> Member(text[i], "license")]]

MarshalMetadata(metadata) == { <<k, metadata[k]>> : k \in DOMAIN metadata }

UnmarshalMetadata(text) ==
    [k \in { kv[1] : kv \in text } |-> (CHOOSE kv \in text : kv[1] = k)[2]]

----------------------------------------------------------------------------
(* internal/platform/database: SQLiteRepository over the table sboms
   (id TEXT PRIMARY KEY, name, components, metadata).  The columns created_at
   and updated_at are written and scanned but never used, and are left out. *)

Row(sbom) ==
    [id |-> sbom.ID, name |-> sbom.Name,
     components |-> MarshalComponents(sbom.Components),
     metadata |-> MarshalMetadata(sbom.Metadata)]

(* SELECT id FROM sboms WHERE id = ?  --  err == sql.ErrNoRows *)
SelectNoRows(table, id) == ~ \E r \in table : r.id = id

(* INSERT INTO sboms ...: the PRIMARY KEY rejects a second row with the id *)
Insert(table, row) ==
    IF \E r \in table : r.id = row.id
    THEN [err |-> "UNIQUE constraint failed: sboms.id", table |-> table]
    ELSE [err |-> "nil", table |-> table \cup {row}]

(* An UPDATE that sets the name and the metadata but not the components *)
UpdateKeepingComponents(table, row) ==
    [err |-> "nil",
     table |-> { IF r.id = row.id THEN [row EXCEPT !.components = r.components] ELSE r :
                 r \in table }]

(* UPDATE sboms SET name = ?, components = ?, metadata = ? WHERE id = ? *)
Update(table, row) ==
    [err |-> "nil",
     table |-> { IF r.id = row.id THEN row ELSE r : r \in table }]

(* SQLiteRepository.FindByID on a table the query can read *)
FindByID(table, id) ==
    IF \A r \in table : r.id # id
    THEN [found |-> FALSE, sbom |-> NoSBOM]
    ELSE LET r == CHOOSE r \in table : r.id = id
         IN  [found |-> TRUE,
              sbom |-> [ID |-> r.id, Name |-> r.name,
                        Components |-> UnmarshalComponents(r.components),
                        Metadata |-> UnmarshalMetadata(r.metadata)]]

----------------------------------------------------------------------------
(* internal/transport/rest: the handlers.  Each client sends one request at
   a time; net/http serves every request on its own goroutine, so the
   statements the handlers of different clients run against the database
   interleave.  A database statement can also fail for a reason outside the
   program (disk I/O error, database is locked): fault. *)

Clients == 1..NumClients

NoLocal == [sbom |-> NoSBOM, doc |-> Undecodable, noRows |-> FALSE]

(* No analyze request is past its store lookup; served counts the requests
   analysed since the process started and harvests the runs of
   Harvester.HarvestMockData among them that populated a vector index *)
NoAnalysis == [stage |-> "idle", served |-> 0, harvests |-> 0]

ServerIdle ==
    /\ analysis = NoAnalysis
    /\ sboms = {}
    /\ pc = [c \in Clients |-> "idle"]
    /\ local = [c \in Clients |-> NoLocal]
    /\ lastResp = [handler |-> "none", request |-> [method |-> ""], status |-> 0,
                   body |-> [message |-> ""], stmt |-> "", prior |-> NoSBOM,
                   lookup |-> "", called |-> << >>]
    /\ lastPut = << >>

writeErrorResponse(statusCode, errorType, message) ==
    [status |-> statusCode, body |-> [error |-> errorType, message |-> message]]

NoFile == [present |-> FALSE, size |-> 0, doc |-> Undecodable]

SubmitRequests ==
    { [method |-> "GET", form |-> "ok", file |-> NoFile],
      [method |-> "POST", form |-> "invalid", file |-> NoFile],
      [method |-> "POST", form |-> "ok", file |-> NoFile],
      [method |-> "POST", form |-> "ok",
       file |-> [present |-> TRUE, size |-> 0, doc |-> Undecodable]] }
    \cup { [method |-> "POST", form |-> "ok",
            file |-> [present |-> TRUE, size |-> 1, doc |-> d]] : d \in CycloneDXDocs }

RequestIDs == { "", "urn:uuid:1", "urn:uuid:2", "urn:uuid:3" }

GetRequests ==
    { [method |-> "POST", id |-> "urn:uuid:1"] }
    \cup { [method |-> "GET", id |-> id] : id \in RequestIDs }

(* SubmitSBOMHandler up to the call of repo.Store: the error response it
   writes, or status 0 when it goes on to store the parsed SBOM. *)
SubmitChecks(request) ==
    IF request.method # "POST"
    THEN writeErrorResponse(405, "method_not_allowed", <<"Only POST method is allowed", "">>)
    ELSE IF request.form # "ok"
    THEN writeErrorResponse(400, "invalid_form", <<"Failed to parse multipart form", "">>)
    ELSE IF ~request.file.present
    THEN writeErrorResponse(400, "missing_file", <<"SBOM file is required", "">>)
    ELSE IF request.file.size = 0
    THEN writeErrorResponse(400, "empty_file", <<"Uploaded file is empty", "">>)
    ELSE IF Parse(request.file.doc).err # "nil"
    THEN writeErrorResponse(400, "parse_error",
                            <<"Failed to parse SBOM file: ", Parse(request.file.doc).err>>)
    ELSE [status |-> 0, body |-> [sbom |-> Parse(request.file.doc).sbom]]

(* stmt and prior record, for a 201, the statement of Store that wrote the
   row and the SBOM stored under the id before it; else "" and NoSBOM.
   lookup and called record, for an analyze request that reached
   repo.FindByID, what the lookup reported and the agents whose Analyze the
   handler then called; else "" and << >>. *)
Respond(c, handler, request, response, stmt) ==
    /\ lastResp' = [handler |-> handler, request |-> request,
                    status |-> response.status, body |-> response.body, stmt |-> stmt,
                    prior |-> IF stmt = "" THEN NoSBOM
                              ELSE FindByID(sboms, response.body.id).sbom,
                    lookup |-> IF "lookup" \in DOMAIN response THEN response.lookup ELSE "",
                    called |-> IF "called" \in DOMAIN response THEN response.called
                               ELSE << >>]
    /\ pc' = [pc EXCEPT ![c] = "idle"]
    /\ local' = [local EXCEPT ![c] = NoLocal]

(* A handler that stores what Parse returned before it looks at the error
   of Parse *)
SubmitReceiveStoringFirst(c, requests) ==
    /\ pc[c] = "idle"
    /\ \E request \in requests :
          LET checked == SubmitChecks(request)
          IN  IF checked.status # 0
              THEN /\ Respond(c, "submit", request, checked, "")
                   /\ sboms' = IF checked.body.error = "parse_error"
                               THEN Insert(sboms, Row(Parse(request.file.doc).sbom)).table
                               ELSE sboms
                   /\ UNCHANGED lastPut
              ELSE /\ pc' = [pc EXCEPT ![c] = "Store_select"]
                   /\ local' = [local EXCEPT ![c] =
                                   [sbom |-> checked.body.sbom, doc |-> request.file.doc,
                                    noRows |-> FALSE]]
                   /\ UNCHANGED <<sboms, lastResp, lastPut>>
    /\ UNCHANGED <<licVars, vecVars, anaVars, ingVars>>

(* SubmitSBOMHandler: method, form, file and parse checks *)
SubmitReceive(c, requests) ==
    /\ pc[c] = "idle"
    /\ \E request \in requests :
          LET checked == SubmitChecks(request)
          IN  IF checked.status # 0
              THEN /\ Respond(c, "submit", request, checked, "")
                   /\ UNCHANGED <<sboms, lastPut>>
              ELSE /\ pc' = [pc EXCEPT ![c] = "Store_select"]
                   /\ local' = [local EXCEPT ![c] =
                                   [sbom |-> checked.body.sbom, doc |-> request.file.doc,
                                    noRows |-> FALSE]]
                   /\ UNCHANGED <<sboms, lastResp, lastPut>>
    /\ UNCHANGED <<licVars, vecVars, anaVars, ingVars>>

SubmitRequestOf(c) ==
    [method |-> "POST", form |-> "ok",
     file |-> [present |-> TRUE, size |-> 1, doc |-> local[c].doc]]

StoreFailed(c, what, cause) ==
    /\ Respond(c, "submit", SubmitRequestOf(c),
               writeErrorResponse(500, "storage_error",
                                  <<"Failed to store SBOM: " \o what, cause>>), "")
    /\ UNCHANGED <<sboms, lastPut>>

(* SQLiteRepository.Store: the SELECT that looks for the id *)
StoreSelect(c) ==
    /\ pc[c] = "Store_select"
    /\ \E fault \in BOOLEAN :
          IF fault
          THEN StoreFailed(c, "failed to check existing SBOM", "disk I/O error")
          ELSE /\ local' = [local EXCEPT ![c].noRows = SelectNoRows(sboms, local[c].sbom.ID)]
               /\ pc' = [pc EXCEPT ![c] = "Store_exec"]
               /\ UNCHANGED <<sboms, lastResp, lastPut>>
    /\ UNCHANGED <<licVars, vecVars, anaVars, ingVars>>

(* SQLiteRepository.Store: the INSERT or UPDATE, then the 201 response *)
StoreExec(c) ==
    /\ pc[c] = "Store_exec"
    /\ \E fault \in BOOLEAN :
          LET sbom == local[c].sbom
              stmt == IF local[c].noRows THEN "INSERT" ELSE "UPDATE"
              done == IF local[c].noRows THEN Insert(sboms, Row(sbom))
                                         ELSE Update(sboms, Row(sbom))
          IN  IF fault
              THEN StoreFailed(c, IF local[c].noRows THEN "failed to insert SBOM"
                                                     ELSE "failed to update SBOM",
                               "disk I/O error")
              ELSE IF done.err # "nil"
              THEN StoreFailed(c, "failed to insert SBOM", done.err)
              ELSE /\ sboms' = done.table
                   /\ lastPut' = MapPut(lastPut, sbom.ID, sbom)
                   /\ Respond(c, "submit", SubmitRequestOf(c),
                              [status |-> 201,
                               body |-> [id |-> sbom.ID,
                                         message |-> "SBOM submitted successfully"]],
                              stmt)
    /\ UNCHANGED <<licVars, vecVars, anaVars, ingVars>>

(* GetSBOMHandler: the response to request over table *)
GetResponse(request, table, fault) ==
    IF request.method # "GET"
    THEN writeErrorResponse(405, "method_not_allowed", <<"Only GET method is allowed", "">>)
    ELSE IF request.id = ""
    THEN writeErrorResponse(400, "missing_id",
                            <<"SBOM ID is required as query parameter", "">>)
    ELSE IF fault
    THEN writeErrorResponse(500, "storage_error",
                            <<"Failed to retrieve SBOM: failed to query SBOM", "disk I/O error">>)
    ELSE IF ~FindByID(table, request.id).found
    THEN writeErrorResponse(404, "not_found", <<"SBOM not found", "">>)
    ELSE [status |-> 200, body |-> FindByID(table, request.id).sbom]

GetSBOMHandler(c) ==
    /\ pc[c] = "idle"
    /\ \E request \in GetRequests, fault \in BOOLEAN :
          Respond(c, "get", request, GetResponse(request, sboms, fault), "")
    /\ UNCHANGED <<sboms, lastPut>>
    /\ UNCHANGED <<licVars, vecVars, anaVars, ingVars>>

----------------------------------------------------------------------------
(* internal/platform/vectordb: MemoryVectorDB.  A Go map is a function whose
   domain is the set of keys present; float64 components are integers. *)

DocIDs == { "", "vuln-001", "vuln-002" }

(* No Search call is in progress *)
NoSearch == [pc |-> "idle"]
Vectors == SeqsUpTo({ 0, 1 }, MaxDim)
Documents ==
    { [ID |-> id, Text |-> "t", Vector |-> v] : id \in DocIDs, v \in Vectors }

NewMemoryVectorDB == << >>

(* An Add that keeps the document already stored under the id *)
AddKeepingExisting(m, doc) ==
    IF doc.ID = ""
    THEN [documents |-> m, err |-> "document ID cannot be empty"]
    ELSE IF Len(doc.Vector) = 0
    THEN [documents |-> m, err |-> "document vector cannot be empty"]
    ELSE IF doc.ID \in DOMAIN m
    THEN [documents |-> m, err |-> "nil"]
    ELSE [documents |-> MapPut(m, doc.ID, doc), err |-> "nil"]

(* MemoryVectorDB.Add on the map m: the map afterwards and the error *)
Add(m, doc) ==
    IF doc.ID = ""
    THEN [documents |-> m, err |-> "document ID cannot be empty"]
    ELSE IF Len(doc.Vector) = 0
    THEN [documents |-> m, err |-> "document vector cannot be empty"]
    ELSE [documents |-> MapPut(m, doc.ID, doc), err |-> "nil"]

Get(id) ==
    /\ vecRet' = IF id \in DOMAIN documents
                 THEN [op |-> "Get", id |-> id, doc |-> documents[id], exists |-> TRUE]
                 ELSE [op |-> "Get", id |-> id, doc |-> [ID |-> "", Text |-> "", Vector |-> << >>],
                       exists |-> FALSE]
    /\ UNCHANGED documents

Delete(id) ==
    IF id \in DOMAIN documents
    THEN /\ documents' = MapDelete(documents, id)
         /\ vecRet' = [op |-> "Delete", id |-> id, removed |-> TRUE]
    ELSE /\ vecRet' = [op |-> "Delete", id |-> id, removed |-> FALSE]
         /\ UNCHANGED documents

Size ==
    /\ vecRet' = [op |-> "Size", size |-> Cardinality(DOMAIN documents)]
    /\ UNCHANGED documents

Clear ==
    /\ documents' = << >>
    /\ vecRet' = [op |-> "Clear"]

AddCall ==
    /\ \E doc \in Documents :
          /\ documents' = Add(documents, doc).documents
          /\ vecRet' = [op |-> "Add", doc |-> doc, err |-> Add(documents, doc).err]
    /\ UNCHANGED <<licVars, srvVars, anaVars, search, ingVars>>
GetCall == \E id \in DocIDs : Get(id) /\ UNCHANGED <<licVars, srvVars, anaVars, search, ingVars>>
DeleteCall == \E id \in DocIDs : Delete(id) /\ UNCHANGED <<licVars, srvVars, anaVars, search, ingVars>>
SizeCall == Size /\ UNCHANGED <<licVars, srvVars, anaVars, search, ingVars>>
ClearCall == Clear /\ UNCHANGED <<licVars, srvVars, anaVars, search, ingVars>>

InitVec ==
    /\ documents = NewMemoryVectorDB
    /\ vecRet = [op |-> "New"]
    /\ search = NoSearch
    /\ parsed = NoParse
    /\ LicenseIdle
    /\ ServerIdle

NextVec == AddCall \/ GetCall \/ DeleteCall \/ SizeCall \/ ClearCall

SpecVec == InitVec /\ [][NextVec]_vars

----------------------------------------------------------------------------
(* MemoryVectorDB.Search.  A similarity is the real number num / sqrt(den2),
   kept exact as the pair (num, den2); it is 0 when a norm is 0. *)

RECURSIVE Dot(_, _, _)
Dot(a, b, i) == IF i > Len(a) THEN 0 ELSE a[i] * b[i] + Dot(a, b, i + 1)

cosineSimilarity(a, b) ==
    IF Len(a) # Len(b) THEN [num |-> 0, den2 |-> 1]
    ELSE IF Dot(a, a, 1) = 0 \/ Dot(b, b, 1) = 0 THEN [num |-> 0, den2 |-> 1]
    ELSE [num |-> Dot(a, b, 1), den2 |-> Dot(a, a, 1) * Dot(b, b, 1)]

Abs(x) == IF x < 0 THEN -x ELSE x

(* x.Similarity > y.Similarity *)
SimilarityGreater(x, y) == x.num * Abs(x.num) * y.den2 > y.num * Abs(y.num) * x.den2

(* result.Similarity > 0.3 *)
AboveThreshold(x) == x.num > 0 /\ 100 * x.num * x.num > 9 * x.den2

(* The slices sort.Slice can leave in results[:k]: sort.Slice is not stable
   and results was filled in map iteration order, so equal similarities come
   in any order. *)
RECURSIVE SortedPrefixes(_, _)
SortedPrefixes(scored, k) ==
    IF k = 0 \/ scored = {} THEN { << >> }
    ELSE UNION { { <<x>> \o rest : rest \in SortedPrefixes(scored \ {x}, k - 1) } :
                 x \in { y \in scored :
                           \A z \in scored : ~SimilarityGreater(z.Similarity, y.Similarity) } }

(* A Search that scores the documents of every dimension *)
SearchEveryDocument(m, queryVector, k) ==
    IF Len(queryVector) = 0
    THEN { [results |-> << >>, err |-> "query vector cannot be empty"] }
    ELSE LET scored == { [Document |-> m[id],
                          Similarity |-> cosineSimilarity(queryVector, m[id].Vector)] :
                         id \in DOMAIN m }
         IN  { [results |-> r, err |-> "nil"] : r \in SortedPrefixes(scored, k) }

(* The (results, err) pairs Search can return on the map m *)
Search(m, queryVector, k) ==
    IF Len(queryVector) = 0
    THEN { [results |-> << >>, err |-> "query vector cannot be empty"] }
    ELSE LET scored == { [Document |-> m[id],
                          Similarity |-> cosineSimilarity(queryVector, m[id].Vector)] :
                         id \in { x \in DOMAIN m : Len(m[x].Vector) = Len(queryVector) } }
         IN  { [results |-> r, err |-> "nil"] : r \in SortedPrefixes(scored, k) }

(* Search(queryVector, k) called while no other goroutine uses the index;
   k is not negative (results[:k] panics on a negative k) *)
MaxK == 2

SearchDocuments ==
    { [ID |-> id, Text |-> "t", Vector |-> v] :
        id \in { "vuln-001", "vuln-002", "vuln-003" },
        v \in { <<1>>, <<1, 0>>, <<1, 1>>, <<0, 1>> } }

IndexCall ==
    /\ \E doc \in SearchDocuments :
          /\ documents' = Add(documents, doc).documents
          /\ vecRet' = [op |-> "Add", doc |-> doc, err |-> Add(documents, doc).err]
    /\ UNCHANGED <<licVars, srvVars, anaVars, search, ingVars>>

SearchAloneCall ==
    /\ \E queryVector \in { << >>, <<1>>, <<1, 0>>, <<1, 1>> }, k \in 0..MaxK :
          \E r \in Search(documents, queryVector, k) :
             vecRet' = [op |-> "Search", queryVector |-> queryVector, k |-> k,
                        results |-> r.results, err |-> r.err]
    /\ UNCHANGED documents
    /\ UNCHANGED <<licVars, srvVars, anaVars, search, ingVars>>

NextSearch == IndexCall \/ ClearCall \/ SearchAloneCall

SpecSearch == InitVec /\ [][NextSearch]_vars

----------------------------------------------------------------------------
(* MemoryVectorDB shared by two goroutines: one writes (Add, Delete, Clear)
   while the other is in Search.  The struct has no lock, so the loop
   "for _, doc := range m.documents" of Search interleaves with the writes.
   Add and Delete write the map the loop is ranging over: a data race, after
   which the loop either goes on over the map as it then is (an entry created
   meanwhile may be produced or skipped, a removed one is not produced) or
   the runtime stops the process with "fatal error: concurrent map iteration
   and map write".  Clear assigns a new map to the field: the loop keeps the
   map it started on, and later writes go to the new one. *)

ConcDocuments ==
    { [ID |-> "vuln-001", Text |-> "t", Vector |-> <<1, 0>>],
      [ID |-> "vuln-002", Text |-> "t", Vector |-> <<0, 1>>] }

(* The map the loop of Search is ranging over *)
Ranged(s) == IF s.live THEN documents ELSE s.old

(* Search(queryVector, k) is called, the previous call if any having
   returned: the loop has visited no key yet.  snapshots collects the
   contents of m.documents during the call, between whole writes. *)
SearchCall ==
    /\ search.pc \in { "idle", "returned" }
    /\ \E queryVector \in { <<1, 0>>, <<1, 1>> }, k \in 1..Cardinality(ConcDocuments) :
          search' = [pc |-> "range", queryVector |-> queryVector, k |-> k,
                     visited |-> {}, results |-> {}, snapshots |-> { documents },
                     live |-> TRUE, old |-> << >>, added |-> {}]
    /\ UNCHANGED <<documents, vecRet, licVars, srvVars, anaVars, ingVars>>

(* One iteration of the loop *)
SearchRange ==
    /\ search.pc = "range"
    /\ \E id \in DOMAIN Ranged(search) \ search.visited :
          LET doc == Ranged(search)[id]
          IN  search' = [search EXCEPT
                           !.visited = @ \cup { id },
                           !.results = IF Len(doc.Vector) # Len(search.queryVector)
                                       THEN @
                                       ELSE @ \cup { [Document |-> doc,
                                                      Similarity |->
                                                          cosineSimilarity(search.queryVector,
                                                                           doc.Vector)] }]
    /\ UNCHANGED <<documents, vecRet, licVars, srvVars, anaVars, ingVars>>

(* The loop is over: sort, cut to k and return *)
SearchReturn ==
    /\ search.pc = "range"
    /\ DOMAIN Ranged(search) \ search.visited \subseteq search.added
    /\ \E ret \in SortedPrefixes(search.results, search.k) :
          search' = [pc |-> "returned", queryVector |-> search.queryVector, k |-> search.k,
                     snapshots |-> search.snapshots, ret |-> ret]
    /\ UNCHANGED <<documents, vecRet, licVars, srvVars, anaVars, ingVars>>

(* What a whole write of the map in m.documents does to a Search in
   progress; created is the set of keys the write created *)
Raced(s, after, created) ==
    IF s.pc # "range" THEN { s }
    ELSE IF ~s.live THEN { [s EXCEPT !.snapshots = @ \cup { after }] }
    ELSE { [s EXCEPT !.snapshots = @ \cup { after }, !.added = @ \cup created],
           [pc |-> "fatal"] }

ConcAdd ==
    /\ search.pc # "fatal"
    /\ \E doc \in ConcDocuments :
          /\ documents' = Add(documents, doc).documents
          /\ vecRet' = [op |-> "Add", doc |-> doc, err |-> Add(documents, doc).err]
          /\ search' \in Raced(search, documents', { doc.ID } \ DOMAIN documents)
    /\ UNCHANGED <<licVars, srvVars, anaVars, ingVars>>

ConcDelete ==
    /\ search.pc # "fatal"
    /\ \E doc \in ConcDocuments : Delete(doc.ID)
    /\ search' \in Raced(search, documents', {})
    /\ UNCHANGED <<licVars, srvVars, anaVars, ingVars>>

ConcClear ==
    /\ search.pc # "fatal"
    /\ Clear
    /\ search' = IF search.pc # "range" THEN search
                  ELSE [search EXCEPT !.snapshots = @ \cup { documents' },
                                      !.old = Ranged(search),
                                      !.live = FALSE]
    /\ UNCHANGED <<licVars, srvVars, anaVars, ingVars>>

NextVecConc ==
    \/ SearchCall
    \/ SearchRange
    \/ SearchReturn
    \/ ConcAdd
    \/ ConcDelete
    \/ ConcClear

SpecVecConc == InitVec /\ [][NextVecConc]_vars

----------------------------------------------------------------------------
(* The Ollama endpoints: what one HTTP call can come back with *)

RawReplies ==
    { <<" ","E","O","L","\n">>,
      <<"o","k">>,
      <<"N","o"," ","s","e","c","u","r","i","t","y"," ","i","s","s","u","e","s"," ","f","o","u","n","d",".">> }

(* /api/generate *)
GenerateOutcomes ==
    { [transport |-> "error", status |-> 0, decodes |-> FALSE, Response |-> << >>],
      [transport |-> "ok", status |-> 500, decodes |-> FALSE, Response |-> << >>],
      [transport |-> "ok", status |-> 200, decodes |-> FALSE, Response |-> << >>] }
    \cup { [transport |-> "ok", status |-> 200, decodes |-> TRUE, Response |-> r] :
           r \in RawReplies }

(* /api/embeddings *)
EmbeddingFailed == [transport |-> "error", status |-> 0, decodes |-> FALSE, Embedding |-> << >>]
Embedded(v) == [transport |-> "ok", status |-> 200, decodes |-> TRUE, Embedding |-> v]

QueryEmbeddingOutcomes ==
    { EmbeddingFailed, Embedded(<< >>), Embedded(<<1>>), Embedded(<<1, 0>>), Embedded(<<0, 1>>) }

----------------------------------------------------------------------------
(* internal/analysis: DependencyHealthAgent *)

DependencyHealthAgentName == "Dependency Health Agent"

riskKeywords ==
    << <<"u","n","m","a","i","n","t","a","i","n","e","d">>,
       <<"d","e","p","r","e","c","a","t","e","d">>,
       <<"r","i","s","k","y">>,
       <<"o","u","t","d","a","t","e","d">>,
       <<"a","b","a","n","d","o","n","e","d">>,
       <<"n","o","t"," ","m","a","i","n","t","a","i","n","e","d">>,
       <<"n","o"," ","l","o","n","g","e","r"," ","m","a","i","n","t","a","i","n","e","d">>,
       <<"i","n","a","c","t","i","v","e">>,
       <<"a","r","c","h","i","v","e","d">>,
       <<"o","b","s","o","l","e","t","e">>,
       <<"d","i","s","c","o","n","t","i","n","u","e","d">>,
       <<"e","n","d"," ","o","f"," ","l","i","f","e">>,
       <<"e","o","l">>,
       <<"u","n","s","u","p","p","o","r","t","e","d">>,
       <<"v","u","l","n","e","r","a","b","l","e">>,
       <<"s","e","c","u","r","i","t","y"," ","i","s","s","u","e","s">>,
       <<"n","o","t"," ","r","e","c","o","m","m","e","n","d","e","d">>,
       <<"a","v","o","i","d">>,
       <<"s","t","a","l","e">>,
       <<"d","e","a","d"," ","p","r","o","j","e","c","t">> >>

(* A keyword search that does not lower-case the reply *)
indicatesRiskCaseSensitive(response) ==
    \E i \in 1..Len(riskKeywords) : Contains(response, riskKeywords[i])

indicatesRisk(response) ==
    \E i \in 1..Len(riskKeywords) : Contains(ToLower(response), riskKeywords[i])

(* queryOllama and queryLLM up to the decoded, trimmed reply *)
queryOllama(outcome) ==
    IF outcome.transport # "ok"
    THEN [response |-> << >>, err |-> "failed to send request to Ollama"]
    ELSE IF outcome.status # 200
    THEN [response |-> << >>, err |-> "Ollama API returned status"]
    ELSE IF ~outcome.decodes
    THEN [response |-> << >>, err |-> "failed to decode response"]
    ELSE [response |-> TrimSpace(outcome.Response), err |-> "nil"]

(* What queryOllama can return *)
OllamaReplies == { queryOllama(outcome) : outcome \in GenerateOutcomes }

(* The replies on which indicatesRisk(response) is true *)
RiskReplies == { reply \in OllamaReplies : reply.err = "nil" /\ indicatesRisk(reply.response) }

(* context.Context as an agent sees it: whether the cancellation signal
   fires during the Analyze call and, if so, after how many iterations of the
   loop over the components (-1: it has fired before Analyze is called) *)
Background == [fires |-> FALSE, after |-> 0]

(* ctx.Err() # nil when iteration i starts *)
Done(ctx, i) == ctx.fires /\ i > ctx.after

(* http.Client.Do on a cancelled context, when the context is cancelled *)
CanceledOutcome == [transport |-> "error", status |-> 0, decodes |-> FALSE, Response |-> << >>]

(* A run of an agent's Analyze: results and err are what it returns; calls
   lists the HTTP calls it made, with what came back from the generate
   endpoint, and from the component of each finding *)
NoRun == [results |-> << >>, err |-> "nil", calls |-> << >>, from |-> << >>]

(* An iteration that queries the LLM for every component *)
HealthStepEveryComponent(ctx, components, i, run) ==
    { LET reply == queryOllama(outcome)
          called == [run EXCEPT !.calls = Append(@, [endpoint |-> "generate",
                                                      component |-> i,
                                                      outcome |-> outcome])]
      IN  IF reply.err # "nil" THEN called
          ELSE IF reply \in RiskReplies
          THEN [called EXCEPT
                  !.results = Append(@, [agent_name |-> DependencyHealthAgentName,
                                         finding |-> reply.response,
                                         severity |-> "Medium"]),
                  !.from = Append(@, i)]
          ELSE called
      : outcome \in IF Done(ctx, i) THEN { CanceledOutcome } ELSE GenerateOutcomes }

(* The runs one loop iteration of DependencyHealthAgent.Analyze can leave *)
HealthStep(ctx, components, i, run) ==
    IF components[i].Name = << >> \/ components[i].Version = << >> THEN { run }
    ELSE { LET reply == queryOllama(outcome)
               called == [run EXCEPT !.calls = Append(@, [endpoint |-> "generate",
                                                           component |-> i,
                                                           outcome |-> outcome])]
           IN  IF reply.err # "nil" THEN called
               ELSE IF reply \in RiskReplies
               THEN [called EXCEPT
                       !.results = Append(@, [agent_name |-> DependencyHealthAgentName,
                                              finding |-> reply.response,
                                              severity |-> "Medium"]),
                       !.from = Append(@, i)]
               ELSE called
           : outcome \in IF Done(ctx, i) THEN { CanceledOutcome } ELSE GenerateOutcomes }

RECURSIVE HealthAnalyzeFrom(_, _, _, _)
HealthAnalyzeFrom(ctx, components, i, run) ==
    IF i > Len(components) THEN { run }
    ELSE UNION { HealthAnalyzeFrom(ctx, components, i + 1, r) :
                 r \in HealthStep(ctx, components, i, run) }

(* An Analyze that gives up when a call has failed: it returns the error
   and no finding *)
DependencyHealthAgentAnalyzeGivingUp(ctx, sbom) ==
    { IF \E k \in 1..Len(r.calls) : queryOllama(r.calls[k].outcome).err # "nil"
      THEN [r EXCEPT !.results = << >>, !.from = << >>, !.err = "failed to query Ollama"]
      ELSE r
      : r \in HealthAnalyzeFrom(ctx, sbom.Components, 1, NoRun) }

(* The runs of DependencyHealthAgent.Analyze(ctx, sbom) *)
DependencyHealthAgentAnalyze(ctx, sbom) == HealthAnalyzeFrom(ctx, sbom.Components, 1, NoRun)

----------------------------------------------------------------------------
(* internal/platform/vectordb: Harvester, and internal/analysis:
   ProactiveVulnerabilityAgent *)

ProactiveVulnerabilityAgentName == "Proactive Vulnerability Agent"

(* generateMockSecurityData: the ids of the eight mock documents; docText is
   kept as the id *)
mockData ==
    << "vuln-001", "vuln-002", "vuln-003", "vuln-004",
       "vuln-005", "vuln-006", "vuln-007", "vuln-008" >>

generateEmbedding(outcome) ==
    IF outcome.transport # "ok"
    THEN [embedding |-> << >>, err |-> "failed to send request to Ollama"]
    ELSE IF outcome.status # 200
    THEN [embedding |-> << >>, err |-> "Ollama API returned status"]
    ELSE IF ~outcome.decodes
    THEN [embedding |-> << >>, err |-> "failed to decode response"]
    ELSE [embedding |-> outcome.Embedding, err |-> "nil"]

(* What the embeddings endpoint answers to the eight calls of one harvest *)
HarvestOutcomes ==
    { [i \in 1..Len(mockData) |-> EmbeddingFailed],
      [i \in 1..Len(mockData) |-> Embedded(<<1, i>>)],
      [i \in 1..Len(mockData) |-> IF i % 2 = 1 THEN Embedded(<<1, 1>>) ELSE EmbeddingFailed],
      [i \in 1..Len(mockData) |-> IF i = 1 THEN Embedded(<<1>>)
                                  ELSE IF i = 2 THEN Embedded(<< >>)
                                  ELSE IF i = 3 THEN Embedded(<<0, 1>>)
                                  ELSE EmbeddingFailed] }

(* Harvester.HarvestMockData from document i on: the map afterwards (the
   error it returns is always nil) *)
RECURSIVE HarvestMockData(_, _, _)
HarvestMockData(m, i, embeddings) ==
    IF i > Len(mockData) THEN m
    ELSE LET embedded == generateEmbedding(embeddings[i])
         IN  IF embedded.err # "nil"
             THEN HarvestMockData(m, i + 1, embeddings)
             ELSE HarvestMockData(
                      Add(m, [ID |-> mockData[i], Text |-> mockData[i],
                              Vector |-> embedded.embedding]).documents,
                      i + 1, embeddings)

Similarities(searchResults) ==
    [j \in 1..Len(searchResults) |-> searchResults[j].Similarity]

(* A filter that keeps every search result *)
relevantDocsUnfiltered(searchResults) ==
    SelectSeq(searchResults, LAMBDA result : TRUE)

relevantDocs(searchResults) ==
    SelectSeq(searchResults, LAMBDA result : AboveThreshold(result.Similarity))

(* queryLLM: the trimmed reply, "" for a "no concerns" reply *)
queryLLM(outcome) ==
    LET reply == queryOllama(outcome)
        lower == ToLower(reply.response)
    IN  IF reply.err # "nil" THEN reply
        ELSE IF \/ Contains(lower, <<"n","o"," ","r","e","l","e","v","a","n","t"," ","s","e","c","u","r","i","t","y"," ","c","o","n","c","e","r","n","s">>)
                \/ Contains(lower, <<"n","o"," ","s","e","c","u","r","i","t","y"," ","i","s","s","u","e","s">>)
                \/ Contains(lower, <<"n","o"," ","v","u","l","n","e","r","a","b","i","l","i","t","i","e","s">>)
        THEN [response |-> << >>, err |-> "nil"]
        ELSE reply

(* What generateEmbedding and queryLLM can return for a component *)
QueryEmbeddings == { generateEmbedding(outcome) : outcome \in QueryEmbeddingOutcomes }
LLMFindings == { queryLLM(outcome) : outcome \in GenerateOutcomes }


(* The runs one loop iteration of ProactiveVulnerabilityAgent.Analyze can
   leave, m being the agent's vector index; the embeddings call is listed
   with the similarities of the results of the search made with the
   embedding (none if there was no search) and of those the filter kept *)
ProactiveStep(ctx, m, components, i, run) ==
    IF components[i].Name = << >> \/ components[i].Version = << >> THEN { run }
    ELSE LET embedded(searchResults) ==
                 [run EXCEPT !.calls = Append(@, [endpoint |-> "embeddings",
                                                  component |-> i,
                                                  searched |-> Similarities(searchResults),
                                                  retained |-> Similarities(
                                                      relevantDocs(searchResults))])]
             asked(searchResults) ==
                 [embedded(searchResults) EXCEPT
                    !.calls = Append(@, [endpoint |-> "generate", component |-> i])]
         IN  UNION {
               IF queryEmbedding.err # "nil" THEN { embedded(<< >>) }
               ELSE UNION {
                      IF found.err # "nil" THEN { embedded(<< >>) }
                      ELSE IF Len(relevantDocs(found.results)) = 0
                      THEN { embedded(found.results) }
                      ELSE { IF finding.err # "nil" THEN asked(found.results)
                             ELSE IF finding.response # << >>
                             THEN [asked(found.results) EXCEPT
                                     !.results = Append(@,
                                         [agent_name |-> ProactiveVulnerabilityAgentName,
                                          finding |-> finding.response,
                                          severity |-> "Medium"]),
                                     !.from = Append(@, i)]
                             ELSE asked(found.results)
                             : finding \in IF Done(ctx, i) THEN { queryOllama(CanceledOutcome) }
                                           ELSE LLMFindings }
                      : found \in Search(m, queryEmbedding.embedding, 3) }
               : queryEmbedding \in IF Done(ctx, i) THEN { generateEmbedding(EmbeddingFailed) }
                                    ELSE QueryEmbeddings }

RECURSIVE ProactiveAnalyzeFrom(_, _, _, _, _)
ProactiveAnalyzeFrom(ctx, m, components, i, run) ==
    IF i > Len(components) THEN { run }
    ELSE UNION { ProactiveAnalyzeFrom(ctx, m, components, i + 1, r) :
                 r \in ProactiveStep(ctx, m, components, i, run) }

(* NewProactiveVulnerabilityAgent: an agent with a vector index of its own *)
NewProactiveVulnerabilityAgent == [vectorDB |-> NewMemoryVectorDB, initialized |-> FALSE]

(* The agents initializeSecurityIntelligence can leave: the harvest's calls
   all fail when the context is cancelled, and its error is always nil *)
initializeSecurityIntelligence(ctx, agent) ==
    { [vectorDB |-> HarvestMockData(agent.vectorDB, 1, embeddings), initialized |-> TRUE] :
        embeddings \in IF Done(ctx, 0) THEN { [i \in 1..Len(mockData) |-> EmbeddingFailed] }
                       ELSE HarvestOutcomes }

(* The runs of Analyze(ctx, sbom) on agent; a run also tells the agent
   afterwards and whether the harvester ran *)
ProactiveVulnerabilityAgentAnalyze(ctx, agent, sbom) ==
    UNION { { [results |-> r.results, err |-> r.err, calls |-> r.calls, from |-> r.from,
               agent |-> after, harvested |-> ~agent.initialized] :
              r \in ProactiveAnalyzeFrom(ctx, after.vectorDB, sbom.Components, 1, NoRun) } :
            after \in IF agent.initialized THEN { agent }
                      ELSE initializeSecurityIntelligence(ctx, agent) }

----------------------------------------------------------------------------
(* internal/transport/rest: AnalyzeSBOMHandler *)

RECURSIVE CountBySeverity(_, _, _)
CountBySeverity(results, i, findingsBySeverity) ==
    IF i > Len(results) THEN findingsBySeverity
    ELSE LET severity == results[i].severity
             count == IF severity \in DOMAIN findingsBySeverity
                      THEN findingsBySeverity[severity] ELSE 0
         IN  CountBySeverity(results, i + 1, MapPut(findingsBySeverity, severity, count + 1))

(* A summary whose map records each severity found once instead of counting *)
generateAnalysisSummaryOverwriting(results, agentsRun) ==
    [total_findings |-> Len(results),
     findings_by_severity |->
         [severity \in DOMAIN CountBySeverity(results, 1, << >>) |-> 1],
     agents_run |-> agentsRun]

generateAnalysisSummary(results, agentsRun) ==
    [total_findings |-> Len(results),
     findings_by_severity |-> CountBySeverity(results, 1, << >>),
     agents_run |-> agentsRun]

(* A block that runs the agent and keeps its findings without listing it *)
RunOptionalAgentUnlisted(enabled, name, outcome, run) ==
    IF ~enabled THEN run
    ELSE [allResults |-> IF outcome.err # "nil" THEN run.allResults
                         ELSE run.allResults \o outcome.results,
          agentsRun |-> run.agentsRun,
          called |-> Append(run.called, name)]

(* A block that puts the agent's findings in front of the earlier ones *)
RunOptionalAgentPrepending(enabled, name, outcome, run) ==
    IF ~enabled THEN run
    ELSE [allResults |-> IF outcome.err # "nil" THEN run.allResults
                         ELSE outcome.results \o run.allResults,
          agentsRun |-> Append(run.agentsRun, name),
          called |-> Append(run.called, name)]

(* One "if enable... { ... }" block of the handler: the agent's findings are
   appended unless it returned an error, its name always *)
RunOptionalAgent(enabled, name, outcome, run) ==
    IF ~enabled THEN run
    ELSE [allResults |-> IF outcome.err # "nil" THEN run.allResults
                         ELSE run.allResults \o outcome.results,
          agentsRun |-> Append(run.agentsRun, name),
          called |-> Append(run.called, name)]

(* The handler from "Run analysis agents" on; called lists the agents whose
   Analyze was called *)
RunAgents(request, sbomID, licenseResults, health, proactive) ==
    LET afterLicense == [allResults |-> licenseResults, agentsRun |-> <<LicenseAgentName>>,
                         called |-> <<LicenseAgentName>>]
        afterHealth == RunOptionalAgent(request.enableAIHealthCheck,
                                        DependencyHealthAgentName, health, afterLicense)
        afterProactive == RunOptionalAgent(request.enableProactiveScan,
                                           ProactiveVulnerabilityAgentName, proactive,
                                           afterHealth)
    IN  [status |-> 200,
         body |-> [sbom_id |-> sbomID,
                   results |-> afterProactive.allResults,
                   summary |-> generateAnalysisSummary(afterProactive.allResults,
                                                       afterProactive.agentsRun)],
         called |-> afterProactive.called]

(* json.NewEncoder(w).Encode of the Results field: allResults is declared
   with var and only grows by append, so it is the nil slice, which encodes
   as null, exactly when nothing was appended to it *)
EncodeResults(allResults) ==
    IF Len(allResults) = 0 THEN [null |-> TRUE, array |-> << >>]
    ELSE [null |-> FALSE, array |-> allResults]

NotRun == { [results |-> << >>, err |-> "nil"] }

(* results, err := agent.Analyze(ctx, *sbom): what the handler receives *)
Returned(runs) == { [results |-> r.results, err |-> r.err] : r \in runs }

AnalyzeRequests ==
    { [method |-> "GET", pathParts |-> <<"api", "v1", "sboms", "urn:uuid:1", "analyze">>,
       enableAIHealthCheck |-> FALSE, enableProactiveScan |-> FALSE, enableVulnScan |-> FALSE],
      [method |-> "POST", pathParts |-> <<"api", "v1", "sboms", "", "analyze">>,
       enableAIHealthCheck |-> FALSE, enableProactiveScan |-> FALSE, enableVulnScan |-> FALSE],
      [method |-> "POST", pathParts |-> <<"api", "v1", "sboms">>,
       enableAIHealthCheck |-> FALSE, enableProactiveScan |-> FALSE, enableVulnScan |-> FALSE] }
    \cup { [method |-> "POST", pathParts |-> <<"api", "v1", "sboms", id, "analyze">>,
            enableAIHealthCheck |-> h, enableProactiveScan |-> p, enableVulnScan |-> v] :
           id \in RequestIDs \ {""}, h \in BOOLEAN, p \in BOOLEAN, v \in BOOLEAN }

(* A handler that goes on with an empty SBOM when the lookup finds no row *)
LookupSBOMUnchecked(table, id, fault) ==
    IF fault
    THEN [lookup |-> "error", sbom |-> NoSBOM,
          failure |-> writeErrorResponse(500, "storage_error",
                                         <<"Failed to retrieve SBOM: failed to query SBOM",
                                           "disk I/O error">>)]
    ELSE IF ~FindByID(table, id).found
    THEN [lookup |-> "not_found", sbom |-> NoSBOM, failure |-> [status |-> 0]]
    ELSE [lookup |-> "found", sbom |-> FindByID(table, id).sbom, failure |-> [status |-> 0]]

(* "Retrieve SBOM from database": repo.FindByID and the two checks after it.
   failure is the response written before return, of status 0 when the
   handler goes on *)
LookupSBOM(table, id, fault) ==
    IF fault
    THEN [lookup |-> "error", sbom |-> NoSBOM,
          failure |-> writeErrorResponse(500, "storage_error",
                                         <<"Failed to retrieve SBOM: failed to query SBOM",
                                           "disk I/O error">>)]
    ELSE IF ~FindByID(table, id).found
    THEN [lookup |-> "not_found", sbom |-> NoSBOM,
          failure |-> writeErrorResponse(404, "not_found", <<"SBOM not found", "">>)]
    ELSE [lookup |-> "found", sbom |-> FindByID(table, id).sbom, failure |-> [status |-> 0]]

(* response, with what the lookup before it reported *)
Looked(lookup, response) ==
    [status |-> response.status, body |-> response.body, lookup |-> lookup,
     called |-> IF "called" \in DOMAIN response THEN response.called ELSE << >>]

(* The responses AnalyzeSBOMHandler can write to request on the table *)
AnalyzeResponses(request, table, fault) ==
    IF request.method # "POST"
    THEN { writeErrorResponse(405, "method_not_allowed", <<"Only POST method is allowed", "">>) }
    ELSE IF Len(request.pathParts) < 4 \/ request.pathParts[4] = ""
    THEN { writeErrorResponse(400, "missing_id", <<"SBOM ID is required in URL path", "">>) }
    ELSE IF LookupSBOM(table, request.pathParts[4], fault).failure.status # 0
    THEN { Looked(LookupSBOM(table, request.pathParts[4], fault).lookup,
                  LookupSBOM(table, request.pathParts[4], fault).failure) }
    ELSE LET sbom == LookupSBOM(table, request.pathParts[4], fault).sbom
             lookup == LookupSBOM(table, request.pathParts[4], fault).lookup
         IN  { Looked(lookup, RunAgents(request, request.pathParts[4],
                                        licenseResults, health, proactive)) :
                 licenseResults \in LicenseAgentAnalyze(sbom),
                 health \in IF request.enableAIHealthCheck
                            THEN Returned(DependencyHealthAgentAnalyze(Background, sbom))
                            ELSE NotRun,
                 proactive \in IF request.enableProactiveScan
                               THEN Returned(ProactiveVulnerabilityAgentAnalyze(
                                        Background, NewProactiveVulnerabilityAgent, sbom))
                               ELSE NotRun }

(* A handler that writes a mark of the analysis into the stored SBOM *)
AnalyzeSBOMHandlerEnriching(c) ==
    /\ pc[c] = "idle"
    /\ \E request \in AnalyzeRequests, fault \in BOOLEAN :
          \E response \in AnalyzeResponses(request, sboms, fault) :
             /\ Respond(c, "analyze", request, response, "")
             /\ sboms' = IF response.status # 200 THEN sboms
                         ELSE LET sbom == FindByID(sboms, response.body.sbom_id).sbom
                              IN  Update(sboms,
                                         Row([sbom EXCEPT !.Metadata =
                                                 MapPut(@, "analyzed", "true")])).table
    /\ UNCHANGED lastPut
    /\ UNCHANGED <<licVars, vecVars, anaVars, ingVars>>

AnalyzeSBOMHandler(c) ==
    /\ pc[c] = "idle"
    /\ \E request \in AnalyzeRequests, fault \in BOOLEAN :
          \E response \in AnalyzeResponses(request, sboms, fault) :
             Respond(c, "analyze", request, response, "")
    /\ UNCHANGED <<sboms, lastPut>>
    /\ UNCHANGED <<licVars, vecVars, anaVars, ingVars>>

----------------------------------------------------------------------------
(* LicenseAgent.Analyze called repeatedly on one SBOM *)

LicenseInputs ==
    { << >>,
      <<"M","I","T">>,
      <<"G","P","L","-","3",".","0">>,
      <<"G","P","L","-","3",".","0","-","o","n","l","y">>,
      <<" ","A","G","P","L","-","3",".","0","-","o","n","l","y"," ">>,
      <<"L","G","P","L","-","2",".","1">>,
      <<"m","p","l","-","2",".","0">>,
      <<"S","l","e","e","p","y","c","a","t">> }

LicenseComponents ==
    { [Name |-> <<"a">>, Version |-> v, PURL |-> << >>, License |-> l] :
        v \in { << >>, <<"1">> }, l \in LicenseInputs }

InitLicense ==
    /\ documents = << >>
    /\ vecRet = [op |-> "New"]
    /\ search = NoSearch
    /\ parsed = NoParse
    /\ ServerIdle
    /\ licSbom \in { [ID |-> "x", Name |-> "n", Components |-> cs, Metadata |-> << >>] :
                        cs \in SeqsUpTo(LicenseComponents, MaxComponents) }
    /\ licRuns = << >>

LicenseAnalyzeCall ==
    /\ Len(licRuns) < MaxRuns
    /\ \E results \in LicenseAgentAnalyze(licSbom) :
           licRuns' = Append(licRuns, results)
    /\ UNCHANGED <<licSbom, vecVars, srvVars, anaVars, ingVars>>

NextLicense == LicenseAnalyzeCall

SpecLicense == InitLicense /\ [][NextLicense]_vars

----------------------------------------------------------------------------
(* AnalyzeSBOMHandler from "Run analysis agents" on, one agent at a time, on
   an SBOM the lookup returned and under a request context that may be
   cancelled *)

MaxAnalyses == 2

(* The SBOMs the parser produces from the documents *)
AnalysisSBOMs == { Parse(doc).sbom : doc \in { d \in CycloneDXDocs : Parse(d).err = "nil" } }

(* The agents in the order in which the handler runs them *)
AgentOrder == <<LicenseAgentName, DependencyHealthAgentName, ProactiveVulnerabilityAgentName>>

Rank(agent) == CHOOSE i \in 1..Len(AgentOrder) : AgentOrder[i] = agent

(* r.Context(): never cancelled, or cancelled while agent runs, after that
   many iterations of its loop *)
NeverCancelled == [fires |-> FALSE, agent |-> "", after |-> 0]

RequestContexts(sbom, request) ==
    { NeverCancelled }
    \cup { [fires |-> TRUE, agent |-> agent, after |-> after] :
             agent \in { LicenseAgentName }
                       \cup (IF request.enableAIHealthCheck
                             THEN { DependencyHealthAgentName } ELSE {})
                       \cup (IF request.enableProactiveScan
                             THEN { ProactiveVulnerabilityAgentName } ELSE {}),
             after \in 0..(Len(sbom.Components) - 1) }

(* The context as agent sees it during its Analyze call *)
AgentContext(ctx, agent) ==
    IF ~ctx.fires THEN Background
    ELSE IF Rank(ctx.agent) < Rank(agent) THEN [fires |-> TRUE, after |-> -1]
    ELSE IF ctx.agent = agent THEN [fires |-> TRUE, after |-> ctx.after]
    ELSE Background

AnalysisReceive ==
    /\ analysis.stage = "idle"
    /\ analysis.served < MaxAnalyses
    /\ \E sbom \in AnalysisSBOMs, h \in BOOLEAN, p \in BOOLEAN :
          LET request == [method |-> "POST",
                          pathParts |-> <<"api", "v1", "sboms", sbom.ID, "analyze">>,
                          enableAIHealthCheck |-> h, enableProactiveScan |-> p,
                          enableVulnScan |-> FALSE]
          IN  \E ctx \in RequestContexts(sbom, request) :
                 analysis' = [stage |-> "license", served |-> analysis.served + 1,
                              harvests |-> analysis.harvests,
                              request |-> request, ctx |-> ctx, sbom |-> sbom]
    /\ UNCHANGED <<licVars, vecVars, srvVars, ingVars>>

(* licenseResults, err := licenseAgent.Analyze(ctx, *sbom) *)
RunLicenseAgent ==
    /\ analysis.stage = "license"
    /\ \E licenseResults \in LicenseAgentAnalyze(analysis.sbom) :
          analysis' = [stage |-> "health", served |-> analysis.served,
                       harvests |-> analysis.harvests,
                       request |-> analysis.request, ctx |-> analysis.ctx,
                       sbom |-> analysis.sbom, license |-> licenseResults]
    /\ UNCHANGED <<licVars, vecVars, srvVars, ingVars>>

(* if enableAIHealthCheck { healthResults, err := healthAgent.Analyze(ctx, *sbom) } *)
RunHealthAgent ==
    /\ analysis.stage = "health"
    /\ \E health \in IF analysis.request.enableAIHealthCheck
                      THEN DependencyHealthAgentAnalyze(
                               AgentContext(analysis.ctx, DependencyHealthAgentName),
                               analysis.sbom)
                      ELSE { NoRun } :
          analysis' = [stage |-> "proactive", served |-> analysis.served,
                       harvests |-> analysis.harvests,
                       request |-> analysis.request, ctx |-> analysis.ctx,
                       sbom |-> analysis.sbom, license |-> analysis.license,
                       health |-> health]
    /\ UNCHANGED <<licVars, vecVars, srvVars, ingVars>>

(* The proactive agent was not run *)
NoProactiveRun ==
    [results |-> << >>, err |-> "nil", calls |-> << >>, from |-> << >>,
     agent |-> NewProactiveVulnerabilityAgent, harvested |-> FALSE]

(* if enableProactiveScan { proactiveAgent := analysis.NewProactiveVulnerabilityAgent()
   proactiveResults, err := proactiveAgent.Analyze(ctx, *sbom) } *)
RunProactiveAgent ==
    /\ analysis.stage = "proactive"
    /\ \E proactive \in IF analysis.request.enableProactiveScan
                         THEN ProactiveVulnerabilityAgentAnalyze(
                                  AgentContext(analysis.ctx, ProactiveVulnerabilityAgentName),
                                  NewProactiveVulnerabilityAgent, analysis.sbom)
                         ELSE { NoProactiveRun } :
          analysis' = [stage |-> "respond", served |-> analysis.served,
                       harvests |-> analysis.harvests
                                    + (IF /\ proactive.harvested
                                          /\ DOMAIN proactive.agent.vectorDB # {}
                                       THEN 1 ELSE 0),
                       request |-> analysis.request, ctx |-> analysis.ctx,
                       sbom |-> analysis.sbom, license |-> analysis.license,
                       health |-> analysis.health, proactive |-> proactive]
    /\ UNCHANGED <<licVars, vecVars, srvVars, ingVars>>

(* The summary and the response written *)
WriteAnalysisResponse ==
    /\ analysis.stage = "respond"
    /\ analysis' = [stage |-> "done", served |-> analysis.served,
                    harvests |-> analysis.harvests,
                    request |-> analysis.request, ctx |-> analysis.ctx,
                    sbom |-> analysis.sbom, license |-> analysis.license,
                    health |-> analysis.health, proactive |-> analysis.proactive,
                    response |-> RunAgents(analysis.request, analysis.sbom.ID,
                                           analysis.license,
                                           [results |-> analysis.health.results,
                                            err |-> analysis.health.err],
                                           [results |-> analysis.proactive.results,
                                            err |-> analysis.proactive.err])]
    /\ UNCHANGED <<licVars, vecVars, srvVars, ingVars>>

(* The handler returns; its agents are garbage *)
AnalysisReturn ==
    /\ analysis.stage = "done"
    /\ analysis' = [stage |-> "idle", served |-> analysis.served,
                    harvests |-> analysis.harvests]
    /\ UNCHANGED <<licVars, vecVars, srvVars, ingVars>>

InitAnalysis ==
    /\ ServerIdle
    /\ LicenseIdle
    /\ documents = NewMemoryVectorDB
    /\ vecRet = [op |-> "New"]
    /\ search = NoSearch
    /\ parsed = NoParse

NextAnalysis ==
    \/ AnalysisReceive
    \/ RunLicenseAgent
    \/ RunHealthAgent
    \/ RunProactiveAgent
    \/ WriteAnalysisResponse
    \/ AnalysisReturn

SpecAnalysis == InitAnalysis /\ [][NextAnalysis]_vars

----------------------------------------------------------------------------
(* LicenseAgent.Analyze on SBOMs whose licenses are spelled in the ways the
   watchlist lookup tells apart: exact entries, other case, surrounding
   blanks, shortened forms, families without an entry of that version *)

WatchlistInputs ==
    { << >>,
      <<"M","I","T">>,
      <<"G","P","L","-","3",".","0">>,
      <<" ","A","G","P","L","-","3",".","0","-","o","n","l","y"," ">>,
      <<"L","G","P","L","-","2",".","0">>,
      <<"m","p","l","-","2",".","0">>,
      <<"E","P","L","-","2",".","0">>,
      <<"e","u","p","l","-","1",".","1">>,
      <<"C","D","D","L","-","1",".","0">>,
      <<"S","l","e","e","p","y","c","a","t">> }

WatchlistComponents ==
    { [Name |-> <<"a">>, Version |-> <<"1">>, PURL |-> << >>, License |-> l] :
        l \in WatchlistInputs }

InitWatchlist ==
    /\ documents = << >>
    /\ vecRet = [op |-> "New"]
    /\ search = NoSearch
    /\ parsed = NoParse
    /\ ServerIdle
    /\ licSbom \in { [ID |-> "x", Name |-> "n", Components |-> cs, Metadata |-> << >>] :
                        cs \in SeqsUpTo(WatchlistComponents, MaxComponents) }
    /\ licRuns = << >>

(* One call of Analyze on licSbom *)
WatchlistAnalyzeCall ==
    /\ licRuns = << >>
    /\ \E results \in LicenseAgentAnalyze(licSbom) :
           licRuns' = <<results>>
    /\ UNCHANGED <<licSbom, vecVars, srvVars, anaVars, ingVars>>

NextWatchlist == WatchlistAnalyzeCall

SpecWatchlist == InitWatchlist /\ [][NextWatchlist]_vars

----------------------------------------------------------------------------
(* The server under concurrent clients: submit and get *)

ConcRequests ==
    { r \in SubmitRequests :
        \/ r.method = "GET"
        \/ /\ r.file.size = 1
           /\ r.file.doc.bomFormat = "CycloneDX"
           /\ \/ r.file.doc.serialNumber = "urn:uuid:1"
              \/ r.file.doc.components = << >> }

InitConc ==
    /\ ServerIdle
    /\ LicenseIdle
    /\ documents = << >>
    /\ vecRet = [op |-> "New"]
    /\ search = NoSearch
    /\ parsed = NoParse

NextConc ==
    \E c \in Clients :
        \/ SubmitReceive(c, ConcRequests)
        \/ StoreSelect(c)
        \/ StoreExec(c)
        \/ GetSBOMHandler(c)

SpecConc == InitConc /\ [][NextConc]_vars

----------------------------------------------------------------------------
(* CycloneDXParser.Parse called on one document *)


NextParse == ParseCall

SpecParse == InitConc /\ [][NextParse]_vars

----------------------------------------------------------------------------
(* The server with one client: requests are served one after the other *)

ServedRequests ==
    { r \in SubmitRequests :
        \/ r.file.size = 0
        \/ ~r.file.doc.decodes
        \/ r.file.doc.bomFormat # "CycloneDX"
        \/ r.file.doc.serialNumber = "urn:uuid:1" }

Init == InitConc

Next ==
    \/ SubmitReceive(1, ServedRequests)
    \/ StoreSelect(1)
    \/ StoreExec(1)
    \/ GetSBOMHandler(1)
    \/ AnalyzeSBOMHandler(1)

Spec == Init /\ [][Next]_vars

----------------------------------------------------------------------------
(* The last response written is a 200 of the analyze endpoint *)
Analyzed == lastResp.handler = "analyze" /\ lastResp.status = 200

RECURSIVE SumOver(_, _)
SumOver(f, keys) ==
    IF keys = {} THEN 0
    ELSE LET k == CHOOSE x \in keys : TRUE
         IN  f[k] + SumOver(f, keys \ {k})

Range(seq) == { seq[i] : i \in 1..Len(seq) }

(* C1: in every AnalysisResponse the counts of summary.findings_by_severity
   add up to summary.total_findings, which is the number of entries of
   results. *)
C1_SummaryAddsUp ==
    Analyzed =>
        LET summary == lastResp.body.summary
        IN  /\ SumOver(summary.findings_by_severity, DOMAIN summary.findings_by_severity)
                  = summary.total_findings
            /\ summary.total_findings = Len(lastResp.body.results)

(* An AnalysisResponse with findings of two severities, one of them found
   more than once *)
C1_Witness ==
    /\ Analyzed
    /\ Cardinality(DOMAIN lastResp.body.summary.findings_by_severity) >= 2
    /\ \E severity \in DOMAIN lastResp.body.summary.findings_by_severity :
          lastResp.body.summary.findings_by_severity[severity] >= 2

(* C2: in every AnalysisResponse each finding of results carries an
   agent_name that is listed in summary.agents_run. *)
C2_FindingAgentsListed ==
    Analyzed =>
        \A i \in 1..Len(lastResp.body.results) :
            lastResp.body.results[i].agent_name \in Range(lastResp.body.summary.agents_run)

(* An AnalysisResponse with findings of all three agents the handler runs *)
C2_Witness ==
    /\ Analyzed
    /\ { lastResp.body.results[i].agent_name : i \in 1..Len(lastResp.body.results) }
          = { LicenseAgentName, DependencyHealthAgentName, ProactiveVulnerabilityAgentName }


(* The agents a request selects, in the order of the specification *)
SelectedAgents(request) ==
    <<LicenseAgentName>>
    \o (IF request.enableAIHealthCheck THEN <<DependencyHealthAgentName>> ELSE << >>)
    \o (IF request.enableProactiveScan THEN <<ProactiveVulnerabilityAgentName>> ELSE << >>)
    \o (IF request.enableVulnScan THEN <<"Vulnerability Scanner">> ELSE << >>)

(* C3: summary.agents_run lists exactly the agents the request selects, the
   License Agent always and the Dependency Health Agent, the Proactive
   Vulnerability Agent and the Vulnerability Scanner each iff its flag is
   set, in that order. *)
C3_AgentsRunAreSelected ==
    Analyzed => lastResp.body.summary.agents_run = SelectedAgents(lastResp.request)

HealthRan == analysis.stage \in { "proactive", "respond", "done" }
ProactiveRan == analysis.stage \in { "respond", "done" }
Responded == analysis.stage = "done"

(* The signal fired while agent was in its loop, with components left *)
CancelledIn(agent) == analysis.ctx.fires /\ analysis.ctx.agent = agent

(* C11: an agent checks the cancellation signal between two iterations: once
   it has fired the agent processes no further component and Analyze returns
   the findings so far with a Cancelled error. *)
C11_AgentsStopOnCancel ==
    /\ (HealthRan /\ CancelledIn(DependencyHealthAgentName)) =>
          /\ analysis.health.err = "Cancelled"
          /\ \A k \in 1..Len(analysis.health.calls) :
                analysis.health.calls[k].component <= analysis.ctx.after
    /\ (ProactiveRan /\ CancelledIn(ProactiveVulnerabilityAgentName)) =>
          /\ analysis.proactive.err = "Cancelled"
          /\ \A k \in 1..Len(analysis.proactive.calls) :
                analysis.proactive.calls[k].component <= analysis.ctx.after

(* C12: when the cancellation signal of the request fires while the agents
   run, the analyze operation does not answer with a successful
   AnalysisResponse. *)
C12_CancellationIsFatal ==
    (Responded /\ analysis.ctx.fires) => analysis.response.status # 200

(* C13: in one process the harvester populates a vector index at most once;
   a later proactive analysis, also one of a later request, harvests nothing. *)
C13_HarvestedOnce == analysis.harvests <= 1

(* C14: after the initialization of the proactive agent the vector index is
   not empty, or else the agent's first Analyze returns an InitFailed error. *)
C14_InitFailedWhenEmpty ==
    (ProactiveRan /\ analysis.proactive.harvested) =>
        \/ Cardinality(DOMAIN analysis.proactive.agent.vectorDB) > 0
        \/ analysis.proactive.err = "InitFailed"

Skipped(component) == component.Name = << >> \/ component.Version = << >>

(* The findings the license agent can write for component *)
LicenseFindingsFor(component) ==
    { LicenseFinding(component, r.description) :
        r \in { x \in isHighRiskLicense(component.License) : x.isHighRisk } }

(* C15: for a component with an empty name or an empty version the health
   agent and the proactive agent make no LLM or embeddings call and emit no
   finding, and the license agent still evaluates its license. *)
C15_EmptyComponentsSkipped ==
    ProactiveRan =>
        \A i \in 1..Len(analysis.sbom.Components) :
            Skipped(analysis.sbom.Components[i]) =>
                /\ \A k \in 1..Len(analysis.health.calls) :
                      analysis.health.calls[k].component # i
                /\ \A k \in 1..Len(analysis.proactive.calls) :
                      analysis.proactive.calls[k].component # i
                /\ i \notin Range(analysis.health.from)
                /\ i \notin Range(analysis.proactive.from)
                /\ LicenseFindingsFor(analysis.sbom.Components[i]) # {} =>
                      \E k \in 1..Len(analysis.license) :
                          analysis.license[k].finding
                              \in LicenseFindingsFor(analysis.sbom.Components[i])

(* Both agents ran with findings on an SBOM that has a component without a
   name whose license is on the watchlist *)
C15_Witness ==
    /\ ProactiveRan
    /\ analysis.health.from # << >>
    /\ analysis.proactive.from # << >>
    /\ \E i \in 1..Len(analysis.sbom.Components) :
          /\ Skipped(analysis.sbom.Components[i])
          /\ LicenseFindingsFor(analysis.sbom.Components[i]) # {}
          /\ \E j \in 1..i - 1 : j \in Range(analysis.health.from)
          /\ \E j \in i + 1..Len(analysis.sbom.Components) :
                j \in Range(analysis.proactive.from)

(* The agents whose Analyze the handler called for the request *)
Attempted ==
    <<LicenseAgentName>>
    \o (IF analysis.request.enableAIHealthCheck THEN <<DependencyHealthAgentName>> ELSE << >>)
    \o (IF analysis.request.enableProactiveScan
        THEN <<ProactiveVulnerabilityAgentName>> ELSE << >>)

(* C16: reads and writes of the vector index are serialized: whatever the
   interleaving, a Search returns what it would return on the document set
   as it was at some moment of the call, between two whole writes. *)
C16_SearchSeesSnapshot ==
    search.pc = "returned" =>
        \E snapshot \in search.snapshots :
            search.ret \in { r.results : r \in Search(snapshot, search.queryVector, search.k) }

(* C17: every successful AnalysisResponse is well-formed: results is encoded
   as an array, empty when there is no finding and never null, and
   summary.agents_run lists every agent that was attempted. *)
C17_ResponseWellFormed ==
    (Responded /\ analysis.response.status = 200) =>
        /\ ~EncodeResults(analysis.response.body.results).null
        /\ analysis.response.body.summary.agents_run = Attempted

GroupOf(results, agent) == SelectSeq(results, LAMBDA r : r.agent_name = agent)

Increasing(seq) == \A a, b \in 1..Len(seq) : a < b => seq[a] < seq[b]

(* The license findings are those of components taken in increasing order *)
InComponentOrder(findings, components) ==
    \E from \in [1..Len(findings) -> 1..Len(components)] :
        /\ Increasing(from)
        /\ \A k \in 1..Len(findings) :
              findings[k].finding \in LicenseFindingsFor(components[from[k]])

(* C18: the findings of results are grouped by agent in the order license,
   health, proactive, and each agent's group keeps the agent's own order,
   which is the order of the SBOM's components. *)
C18_FindingsOrdered ==
    Responded =>
        LET results == analysis.response.body.results
        IN  /\ \A a, b \in 1..Len(results) :
                  a < b => Rank(results[a].agent_name) <= Rank(results[b].agent_name)
            /\ GroupOf(results, LicenseAgentName) = analysis.license
            /\ InComponentOrder(analysis.license, analysis.sbom.Components)
            /\ GroupOf(results, DependencyHealthAgentName) = analysis.health.results
            /\ Increasing(analysis.health.from)
            /\ GroupOf(results, ProactiveVulnerabilityAgentName) = analysis.proactive.results
            /\ Increasing(analysis.proactive.from)

(* A response with two findings of each of the three agents *)
C18_Witness ==
    /\ Responded
    /\ Len(analysis.license) = 2
    /\ Len(analysis.health.from) = 2
    /\ Len(analysis.proactive.from) = 2
    /\ Len(analysis.response.body.results) = 6

(* C19: when the lookup of analyze finds no SBOM the response is 404
   not_found, when it fails the response is 500 storage_error, and in both
   cases no agent's Analyze is called. *)
C19_LookupFailureStopsAnalysis ==
    lastResp.handler = "analyze" =>
        /\ lastResp.lookup = "not_found" =>
               /\ lastResp.status = 404
               /\ lastResp.body.error = "not_found"
               /\ lastResp.called = << >>
        /\ lastResp.lookup = "error" =>
               /\ lastResp.status = 500
               /\ lastResp.body.error = "storage_error"
               /\ lastResp.called = << >>
        /\ lastResp.status \in { 404, 500 } => lastResp.called = << >>

(* A lookup that found nothing, with agents selected in the request *)
C19_Witness ==
    /\ lastResp.handler = "analyze"
    /\ lastResp.lookup = "not_found"
    /\ lastResp.status = 404
    /\ lastResp.request.enableAIHealthCheck
    /\ lastResp.request.enableProactiveScan
    /\ sboms # {}

RejectedSubmit(resp) ==
    /\ resp.handler = "submit"
    /\ \/ resp.status = 405 /\ resp.body.error = "method_not_allowed"
       \/ /\ resp.status = 400
          /\ resp.body.error \in { "invalid_form", "missing_file", "empty_file",
                                    "parse_error" }

InStore(c) == pc[c] \in { "Store_select", "Store_exec" }

(* C20: a step that answers a submit request with 405 or 400 is taken by a
   handler that never entered Store (no handler leaves Store in that step)
   and leaves the stored rows as they were;
   a step that answers 201 is the one in which the INSERT or UPDATE of Store
   put the row of the parsed SBOM in the table; and a handler that leaves
   Store answers 201 having written the row, or 500 storage_error having
   written nothing. *)
C20_RejectedSubmitStoresNothing ==
    [][ /\ (lastResp' # lastResp /\ RejectedSubmit(lastResp')) =>
              /\ pc' = pc
              /\ sboms' = sboms
        /\ (lastResp' # lastResp /\ lastResp'.handler = "submit"
                                 /\ lastResp'.status = 201) =>
              \E c \in Clients :
                 /\ pc[c] = "Store_exec"
                 /\ pc'[c] = "idle"
                 /\ lastResp'.body.id = local[c].sbom.ID
                 /\ Row(local[c].sbom) \in sboms'
        /\ \A c \in Clients :
              (InStore(c) /\ pc'[c] = "idle") =>
                 /\ lastResp'.handler = "submit"
                 /\ \/ lastResp'.status = 201 /\ Row(local[c].sbom) \in sboms'
                    \/ /\ lastResp'.status = 500
                       /\ lastResp'.body.error = "storage_error"
                       /\ sboms' = sboms
      ]_vars

(* A file that does not parse was rejected while the store holds an SBOM *)
C20_Witness ==
    /\ lastResp.handler = "submit"
    /\ lastResp.status = 400
    /\ lastResp.body.error = "parse_error"
    /\ sboms # {}

(* C21: analysis is read-only over stored documents: a step that answers an
   analyze request, whatever agents were selected and whatever they
   returned, leaves the table as it was, so a lookup of any id gives the
   same SBOM after the request as before. *)
C21_AnalysisReadOnly ==
    [][ (lastResp' # lastResp /\ lastResp'.handler = "analyze") =>
            /\ sboms' = sboms
            /\ \A id \in RequestIDs : FindByID(sboms', id) = FindByID(sboms, id)
      ]_vars

(* A stored SBOM was analysed by the three agents, with findings *)
C21_Witness ==
    /\ lastResp.handler = "analyze"
    /\ lastResp.status = 200
    /\ Len(lastResp.called) = 3
    /\ lastResp.body.summary.total_findings > 0
    /\ FindByID(sboms, lastResp.body.sbom_id).found

Accepted == parsed.called /\ parsed.err = "nil"

(* C22: for a document the parser accepts, the SBOM has one component per
   source component, in source order, with the name and the version of the
   source, and its metadata has the keys bomFormat and specVersion. *)
C22_ComponentsVerbatim ==
    Accepted =>
        /\ Len(parsed.sbom.Components) = Len(parsed.doc.components)
        /\ \A i \in 1..Len(parsed.doc.components) :
              /\ parsed.sbom.Components[i].Name = parsed.doc.components[i].name
              /\ parsed.sbom.Components[i].Version = parsed.doc.components[i].version
        /\ { "bomFormat", "specVersion" } \subseteq DOMAIN parsed.sbom.Metadata

(* Two different components, one without a version, and a property *)
C22_Witness ==
    /\ Accepted
    /\ Len(parsed.doc.components) = 2
    /\ parsed.doc.components[1] # parsed.doc.components[2]
    /\ parsed.doc.components[2].version = << >>
    /\ parsed.doc.properties # << >>

(* C29: for every SBOM returned by Parse, Metadata["bomFormat"] is
   "CycloneDX" and Metadata["specVersion"] is the specVersion of the
   document, whatever its top-level properties are. *)
C29_RecognizedKeysKept ==
    Accepted =>
        /\ parsed.sbom.Metadata["bomFormat"] = "CycloneDX"
        /\ parsed.sbom.Metadata["specVersion"] = parsed.doc.specVersion

(* The family of a lower-cased license string *)
Family(lowerLicense) ==
    IF Contains(lowerLicense, <<"a","g","p","l">>) THEN "agpl"
    ELSE IF Contains(lowerLicense, <<"l","g","p","l">>) THEN "lgpl"
    ELSE IF Contains(lowerLicense, <<"g","p","l">>) THEN "gpl"
    ELSE IF Contains(lowerLicense, <<"e","u","p","l">>) THEN "eupl"
    ELSE IF Contains(lowerLicense, <<"m","p","l">>) THEN "mpl"
    ELSE IF Contains(lowerLicense, <<"e","p","l">>) THEN "epl"
    ELSE IF Contains(lowerLicense, <<"c","d","d","l">>) THEN "cddl"
    ELSE "other"

FamilySeverity(family) ==
    IF family = "agpl" THEN "Critical"
    ELSE IF family = "gpl" THEN "High"
    ELSE IF family \in { "lgpl", "mpl", "epl", "eupl", "cddl" } THEN "Medium"
    ELSE "High"

(* The components of licSbom for which Analyze emits a finding, in order *)
Flagged ==
    SelectSeq(licSbom.Components,
              LAMBDA c : c.License # << >>
                         /\ \E r \in isHighRiskLicense(c.License) : r.isHighRisk)

(* C23: the severity of a license finding is the one of the family of the
   component's license: agpl Critical, gpl High, lgpl, mpl, epl, eupl and
   cddl Medium, any other hit High. *)
C23_SeverityByFamily ==
    \A k \in 1..Len(licRuns) :
        /\ Len(licRuns[k]) = Len(Flagged)
        /\ \A j \in 1..Len(Flagged) :
              licRuns[k][j].severity = FamilySeverity(Family(ToLower(Flagged[j].License)))

(* Findings of two different families, one of them agpl *)
C23_Witness ==
    /\ Len(licRuns) > 0
    /\ Len(Flagged) = 2
    /\ Family(ToLower(Flagged[1].License)) = "agpl"
    /\ Family(ToLower(Flagged[2].License)) \in { "mpl", "eupl", "cddl", "epl" }

VersionTokens(lowerLicense) ==
    { t \in { <<"1",".","0">>, <<"1",".","1">>, <<"2",".","0">>, <<"2",".","1">>,
              <<"3",".","0">> } : Contains(lowerLicense, t) }

(* A hit: the string is a watchlist entry up to case, or a watchlist entry
   is of its family (agpl, lgpl, or gpl that is neither) and carries a
   version token it carries *)
WatchlistHit(license) ==
    LET lowerLicense == ToLower(TrimSpace(license))
    IN  \/ \E e \in highRiskLicenses : ToLower(e.id) = lowerLicense
        \/ /\ Family(lowerLicense) \in { "agpl", "gpl", "lgpl" }
           /\ \E e \in highRiskLicenses :
                 /\ Family(ToLower(e.id)) = Family(lowerLicense)
                 /\ VersionTokens(ToLower(e.id)) \cap VersionTokens(lowerLicense) # {}

(* C25: a license string is flagged if and only if it is a watchlist entry
   up to case or some watchlist entry is of the same family (agpl; gpl
   excluding lgpl; lgpl) with the same version token: Analyze emits one
   finding per component whose license is such a hit, and no other. *)
C25_HitByFamilyAndVersion ==
    \A k \in 1..Len(licRuns) :
        Len(licRuns[k]) =
            Cardinality({ i \in 1..Len(licSbom.Components) :
                            /\ licSbom.Components[i].License # << >>
                            /\ WatchlistHit(licSbom.Components[i].License) })

Searched == vecRet.op = "Search" /\ vecRet.err = "nil"

(* C24: Search returns at most k results, in order of decreasing similarity,
   none of which is a document whose vector has another length than the
   query vector. *)
C24_SearchTopK ==
    Searched =>
        /\ Len(vecRet.results) <= vecRet.k
        /\ \A i, j \in 1..Len(vecRet.results) :
              i < j => ~SimilarityGreater(vecRet.results[j].Similarity,
                                          vecRet.results[i].Similarity)
        /\ \A i \in 1..Len(vecRet.results) :
              Len(vecRet.results[i].Document.Vector) = Len(vecRet.queryVector)

(* Two results of different similarity while the index also holds a
   document of another dimension *)
C24_Witness ==
    /\ Searched
    /\ Len(vecRet.results) = 2
    /\ SimilarityGreater(vecRet.results[1].Similarity, vecRet.results[2].Similarity)
    /\ \E id \in DOMAIN documents : Len(documents[id].Vector) # Len(vecRet.queryVector)

IndexSize(m) == Cardinality(DOMAIN m)

(* C30: the size of the index is the number of ids it holds: an Add with an
   id already present replaces the document and leaves the size, an Add
   with a new id adds 1, a Delete of a present id returns true and takes 1,
   a Delete of an absent id returns false and changes nothing, Clear leaves
   size 0, and Size returns the number of ids. *)
C30_SizeCountsIds ==
    [][ /\ (vecRet'.op = "Add" /\ vecRet'.err = "nil") =>
              /\ documents'[vecRet'.doc.ID] = vecRet'.doc
              /\ \A id \in DOMAIN documents \ { vecRet'.doc.ID } :
                    id \in DOMAIN documents' /\ documents'[id] = documents[id]
              /\ IndexSize(documents') =
                     IF vecRet'.doc.ID \in DOMAIN documents THEN IndexSize(documents)
                     ELSE IndexSize(documents) + 1
        /\ vecRet'.op = "Delete" =>
              /\ vecRet'.removed = (vecRet'.id \in DOMAIN documents)
              /\ vecRet'.id \notin DOMAIN documents'
              /\ IF vecRet'.removed
                 THEN IndexSize(documents') = IndexSize(documents) - 1
                 ELSE documents' = documents
        /\ vecRet'.op = "Clear" => IndexSize(documents') = 0
        /\ vecRet'.op = "Size" =>
              vecRet'.size = IndexSize(documents) /\ documents' = documents
      ]_vars

(* A document was deleted from an index that holds another one *)
C30_Witness ==
    /\ vecRet.op = "Delete"
    /\ vecRet.removed
    /\ documents # << >>

(* The HTTP call came back without a usable reply: network error, status
   other than 200, or a body that does not decode *)
CallFailed(outcome) ==
    outcome.transport # "ok" \/ outcome.status # 200 \/ ~outcome.decodes

HasKeyword(reply) ==
    \E i \in 1..Len(riskKeywords) : Contains(ToLower(reply), riskKeywords[i])

(* The handler has called Analyze of the health agent *)
HealthAnalyzed == HealthRan /\ analysis.request.enableAIHealthCheck

(* The findings of the health agent for component i *)
HealthFindingsOf(i) ==
    { j \in 1..Len(analysis.health.from) : analysis.health.from[j] = i }

(* The calls of the health agent for component i *)
HealthCallsOf(i) ==
    { k \in 1..Len(analysis.health.calls) : analysis.health.calls[k].component = i }

(* C27: a failed LLM call does not stop the health agent: Analyze returns
   no error, every component with a name and a version is queried once,
   also after a failed call, and every successful call whose reply names a
   risk gives a finding. *)
C27_HealthContinuesOnError ==
    HealthAnalyzed =>
        /\ analysis.health.err = "nil"
        /\ \A i \in 1..Len(analysis.sbom.Components) :
              ~Skipped(analysis.sbom.Components[i]) =>
                 /\ Cardinality(HealthCallsOf(i)) = 1
                 /\ \A k \in HealthCallsOf(i) :
                       LET outcome == analysis.health.calls[k].outcome
                       IN  (~CallFailed(outcome) /\ HasKeyword(outcome.Response)) =>
                               HealthFindingsOf(i) # {}

(* The call for one component failed on a live context and a later
   component has a finding *)
C27_Witness ==
    /\ HealthRan
    /\ ~analysis.ctx.fires
    /\ \E k, l \in 1..Len(analysis.health.calls) :
          /\ k < l
          /\ CallFailed(analysis.health.calls[k].outcome)
          /\ HealthFindingsOf(analysis.health.calls[l].component) # {}

(* C28: for a component whose LLM call succeeds the health agent emits one
   finding, of severity Medium and with the trimmed reply as its text, if
   the lower-cased reply contains a risk keyword, and none otherwise. *)
C28_FindingIffKeyword ==
    HealthAnalyzed =>
        \A k \in 1..Len(analysis.health.calls) :
            LET outcome == analysis.health.calls[k].outcome
                i == analysis.health.calls[k].component
            IN  ~CallFailed(outcome) =>
                    IF HasKeyword(outcome.Response)
                    THEN /\ Cardinality(HealthFindingsOf(i)) = 1
                         /\ \A j \in HealthFindingsOf(i) :
                               /\ analysis.health.results[j].severity = "Medium"
                               /\ analysis.health.results[j].finding
                                     = TrimSpace(outcome.Response)
                               /\ analysis.health.results[j].agent_name
                                     = DependencyHealthAgentName
                    ELSE HealthFindingsOf(i) = {}

(* A reply with blanks around an upper-case keyword gave a finding and a
   reply without keyword gave none *)
C28_Witness ==
    /\ HealthRan
    /\ \E k, l \in 1..Len(analysis.health.calls) :
          LET risky == analysis.health.calls[k].outcome
              fine == analysis.health.calls[l].outcome
          IN  /\ ~CallFailed(risky)
              /\ HasKeyword(risky.Response)
              /\ TrimSpace(risky.Response) # risky.Response
              /\ ToLower(risky.Response) # risky.Response
              /\ HealthFindingsOf(analysis.health.calls[k].component) # {}
              /\ ~CallFailed(fine)
              /\ ~HasKeyword(fine.Response)

(* The handler has called Analyze of the proactive agent *)
ProactiveAnalyzed == ProactiveRan /\ analysis.request.enableProactiveScan

EmbeddingsCalls ==
    { k \in 1..Len(analysis.proactive.calls) :
        analysis.proactive.calls[k].endpoint = "embeddings" }

GenerateCallsFor(i) ==
    { k \in 1..Len(analysis.proactive.calls) :
        /\ analysis.proactive.calls[k].endpoint = "generate"
        /\ analysis.proactive.calls[k].component = i }

(* similarity > 0.3, the similarity being num / sqrt(den2) *)
OverThreeTenths(similarity) ==
    similarity.num > 0 /\ 100 * similarity.num * similarity.num > 9 * similarity.den2

(* C26: for each component the proactive agent keeps the search results of
   similarity over 0.3 and no other, calls the generate endpoint for the
   component only if it kept a result, and emits no finding for a component
   for which it kept none. *)
C26_ThresholdGatesLLM ==
    ProactiveAnalyzed =>
        /\ \A k \in EmbeddingsCalls :
              LET call == analysis.proactive.calls[k]
              IN  /\ call.retained
                       = SelectSeq(call.searched,
                                   LAMBDA similarity : OverThreeTenths(similarity))
                  /\ call.retained = << >> =>
                        /\ GenerateCallsFor(call.component) = {}
                        /\ call.component \notin Range(analysis.proactive.from)
        /\ \A k \in 1..Len(analysis.proactive.calls) :
              analysis.proactive.calls[k].endpoint = "generate" =>
                  \E e \in EmbeddingsCalls :
                      /\ e < k
                      /\ analysis.proactive.calls[e].component
                            = analysis.proactive.calls[k].component
                      /\ analysis.proactive.calls[e].retained # << >>

(* The search for one component found documents of which none was kept,
   and another component has a finding *)
C26_Witness ==
    /\ ProactiveAnalyzed
    /\ \E k \in EmbeddingsCalls :
          /\ analysis.proactive.calls[k].searched # << >>
          /\ analysis.proactive.calls[k].retained = << >>
    /\ analysis.proactive.from # << >>

(* C5: concurrent Store calls with the same id serialize: every call (that
   meets no I/O failure) succeeds, exactly one row exists for the id
   afterwards, and the stored document is the one of the last write. *)
C5_ConcurrentPutsSerialize ==
    /\ ( /\ lastResp.handler = "submit"
         /\ lastResp.status = 500
         => lastResp.body.message[2] = "disk I/O error" )
    /\ \A id \in DOMAIN lastPut :
          /\ Cardinality({ r \in sboms : r.id = id }) = 1
          /\ FindByID(sboms, id).sbom = lastPut[id]

(* C6: storing under an id that is already stored replaces the document: a
   get of the id returns the name, components and metadata of the most recent
   put, and there is no more than one document per id. *)
C6_UpsertReplaces ==
    /\ \A r \in sboms : r.id \in DOMAIN lastPut
    /\ \A id \in DOMAIN lastPut :
          /\ Cardinality({ r \in sboms : r.id = id }) = 1
          /\ FindByID(sboms, id).found
          /\ FindByID(sboms, id).sbom.Name = lastPut[id].Name
          /\ FindByID(sboms, id).sbom.Components = lastPut[id].Components
          /\ FindByID(sboms, id).sbom.Metadata = lastPut[id].Metadata

C6_Witness ==
    /\ lastResp.handler = "submit"
    /\ lastResp.status = 201
    /\ lastResp.stmt = "UPDATE"
    /\ lastResp.prior.Components # lastPut[lastResp.body.id].Components
    /\ lastResp.prior.Name # lastPut[lastResp.body.id].Name
    /\ FindByID(sboms, lastResp.body.id).sbom = lastPut[lastResp.body.id]

(* C7: every SBOM the ingestor produces has a non-empty id, equal to the
   document's serialNumber when that is non-empty and freshly generated
   otherwise, so that two parsed documents without serialNumber get
   different ids. *)
C7_ParsedIDNonEmpty ==
    /\ \A c \in Clients :
          pc[c] # "idle" =>
             /\ local[c].sbom.ID # ""
             /\ local[c].doc.serialNumber # "" => local[c].sbom.ID = local[c].doc.serialNumber
    /\ \A c1, c2 \in Clients :
          ( /\ c1 # c2
            /\ pc[c1] # "idle" /\ pc[c2] # "idle"
            /\ local[c1].doc.serialNumber = "" /\ local[c2].doc.serialNumber = "" )
          => local[c1].sbom.ID # local[c2].sbom.ID

(* C8: once a submit was answered 201 with id X, a GET of X (that meets no
   I/O failure) returns 200 with the SBOM last submitted under X. *)
C8_GetAfterSubmit ==
    ( /\ lastResp.handler = "get"
      /\ lastResp.request.method = "GET"
      /\ lastResp.request.id \in DOMAIN lastPut
      /\ lastResp.status # 500 )
    => ( /\ lastResp.status = 200
         /\ lastResp.body = lastPut[lastResp.request.id] )

(* C9: once the vector index holds a document whose vector has length N, an
   Add of a document whose vector length differs from N is rejected and
   leaves the index (size and contents) unchanged. *)
C9_DimensionFixed ==
    [][ ( /\ vecRet'.op = "Add"
          /\ \E id \in DOMAIN documents :
                 Len(documents[id].Vector) # Len(vecRet'.doc.Vector) )
        => ( vecRet'.err # "nil" /\ documents' = documents ) ]_vars

(* C10: two Analyze runs of the License agent on the same SBOM return the
   same findings (text, description and severity included) in the same
   order. *)
C10_LicenseDeterministic ==
    \A i, j \in 1..Len(licRuns) : licRuns[i] = licRuns[j]

====
